---- MODULE Spec2Model ----
(***************************************************************************)
(* Model of utils/exportContent.ts: the recursive Content renderer, its    *)
(* two render policies, and the verse converters built on it.              *)
(*                                                                         *)
(* Representation of JavaScript values.                                    *)
(*   string   a sequence of one-character strings: "ab" is <<"a","b">>;    *)
(*            a non-ASCII character is written by its name ("DEGREE").     *)
(*   Content  always a record, so that the shape tests of the source       *)
(*            (typeof, Array.isArray, "f" in obj) become tests on DOMAIN:  *)
(*              a string s         [str |-> s]                             *)
(*              an array  xs       [arr |-> xs]                            *)
(*              an object          the record of its own properties        *)
(*   the properties text, strong, morph, lemma hold strings, marks holds   *)
(*   a sequence of mark names, break holds a BOOLEAN, foot holds the       *)
(*   Footnote record [content |-> Content]; paragraph holds either the     *)
(*   flag, written [bool |-> b], or (paragraph wrapper) a Content.         *)
(*   an optional number (verseNum?) is a sequence of length 0 or 1.        *)
(***************************************************************************)
EXTENDS Integers, Sequences, FiniteSets, TLC

RECURSIVE renderContent(_, _)
RECURSIVE renderTextObject(_, _)
RECURSIVE renderArray(_, _, _)

----------------------------------------------------------------------------
(* Bounds of the model *)

\* longest array of Content drawn as a verse's content
MaxItems == 3
\* number of converter calls made on one accumulator
MaxCalls == 2

----------------------------------------------------------------------------
(* JavaScript primitives *)

Has(obj, f) == f \in DOMAIN obj

Str(s) == [str |-> s]
Arr(xs) == [arr |-> xs]
Bool(b) == [bool |-> b]

IsString(v) == Has(v, "str")
IsArray(v) == Has(v, "arr")
IsBoolean(v) == Has(v, "bool")
\* typeof v === "object" (arrays included)
IsObject(v) == ~IsString(v) /\ ~IsBoolean(v)

\* ToBoolean of a property value
Truthy(v) ==
  IF IsBoolean(v) THEN v.bool
  ELSE IF IsString(v) THEN v.str # <<>>
  ELSE TRUE

RECURSIVE Join(_)
\* Array.prototype.join("")
Join(parts) ==
  IF parts = <<>> THEN <<>> ELSE Head(parts) \o Join(Tail(parts))

UpperChar(c) ==
  CASE c = "a" -> "A"
    [] c = "b" -> "B"
    [] c = "n" -> "N"
    [] c = "m" -> "M"
    [] OTHER -> c

\* String.prototype.toUpperCase
ToUpperCase(s) == [i \in 1..Len(s) |-> UpperChar(s[i])]

Digit(d) == <<"0", "1", "2", "3", "4", "5", "6", "7", "8", "9">>[d + 1]

RECURSIVE NumToString(_)
\* Number.prototype.toString for a natural number
NumToString(n) ==
  IF n < 10 THEN <<Digit(n)>> ELSE NumToString(n \div 10) \o <<Digit(n % 10)>>

\* `${v}` of an optional number
TemplateNum(v) ==
  IF v = <<>> THEN <<"u", "n", "d", "e", "f", "i", "n", "e", "d">>
  ELSE NumToString(v[1])

RECURSIVE PadStart(_, _, _)
\* String.prototype.padStart(n, c)
PadStart(s, n, c) == IF Len(s) >= n THEN s ELSE PadStart(<<c>> \o s, n, c)

\* String.fromCharCode(97 + k) for k in 0..25
FromCharCode97(k) ==
  <<"a", "b", "c", "d", "e", "f", "g", "h", "i", "j", "k", "l", "m",
    "n", "o", "p", "q", "r", "s", "t", "u", "v", "w", "x", "y", "z">>[k + 1]

\* the positions of s, in order
Indices(s) == [i \in 1..Len(s) |-> i]

\* the characters of s at the positions at, in order: what a global replace
\* leaves when it deletes the other positions
Kept(s, at) == [k \in 1..Len(at) |-> s[at[k]]]

\* s.replace(/^ +/, "")
StripLeadingSpaces(s) ==
  LET run == {i \in 1..Len(s) : \A j \in 1..i : s[j] = " "}
  IN SubSeq(s, Cardinality(run) + 1, Len(s))

\* s.replace(/ +$/, "")
StripTrailingSpaces(s) ==
  LET run == {i \in 1..Len(s) : \A j \in i..Len(s) : s[j] = " "}
  IN SubSeq(s, 1, Len(s) - Cardinality(run))

\* s.replace(/ +/g, " "): of every run of spaces the first one stays
CollapseSpaces(s) ==
  Kept(s, SelectSeq(Indices(s),
                    LAMBDA i : s[i] # " " \/ i = 1 \/ s[i - 1] # " "))

ClosingPunctuation == {".", ",", ";", ":", "!", "?"}

\* s.replace(/ ([.,;:!?])/g, "$1"): a space goes when the next character
\* is one of the six
SpaceBeforePunctuation(s) ==
  Kept(s, SelectSeq(Indices(s),
                    LAMBDA i : ~(/\ s[i] = " "
                                 /\ i < Len(s)
                                 /\ s[i + 1] \in ClosingPunctuation)))

\* s.replace(/^\n\n/, "")
StripLeadingBlankLine(s) ==
  IF Len(s) >= 2 /\ s[1] = "\n" /\ s[2] = "\n" THEN SubSeq(s, 3, Len(s)) ELSE s

----------------------------------------------------------------------------
(* Render policies *)

\* The non-ASCII characters of the annotated-text policy, one character each.
Pilcrow == "PILCROW"
BreakSymbol == "SYMBOL_FOR_NEWLINE"
Degree == "DEGREE"
LeftGuillemet == "LEFT_GUILLEMET"
RightGuillemet == "RIGHT_GUILLEMET"

\* The wrapper and marker functions of a policy are named by the policy that
\* defines them; a spread copy of the options keeps the same functions.
TEXT_OPTIONS ==
  [ includeStrongs   |-> TRUE,
    includeMorph     |-> TRUE,
    includeFootnotes |-> TRUE,
    footnoteStyle    |-> "inline",
    paragraphMarker  |-> <<Pilcrow, " ">>,
    lineBreakMarker  |-> <<BreakSymbol>>,
    headingWrapper   |-> "TEXT",
    subtitleWrapper  |-> "TEXT",
    footnoteMarker   |-> "TEXT" ]

\* the Markdown policy with the Strong's and morph codes left in
MarkdownOptionsWithCodes ==
  [ includeStrongs   |-> TRUE,
    includeMorph     |-> TRUE,
    includeFootnotes |-> TRUE,
    footnoteStyle    |-> "reference",
    paragraphMarker  |-> <<"\n", "\n">>,
    lineBreakMarker  |-> <<"<", "b", "r", ">">>,
    headingWrapper   |-> "MARKDOWN",
    subtitleWrapper  |-> "MARKDOWN",
    footnoteMarker   |-> "MARKDOWN" ]

MARKDOWN_OPTIONS ==
  [ includeStrongs   |-> FALSE,
    includeMorph     |-> FALSE,
    includeFootnotes |-> TRUE,
    footnoteStyle    |-> "reference",
    paragraphMarker  |-> <<"\n", "\n">>,
    lineBreakMarker  |-> <<"<", "b", "r", ">">>,
    headingWrapper   |-> "MARKDOWN",
    subtitleWrapper  |-> "MARKDOWN",
    footnoteMarker   |-> "MARKDOWN" ]

SupOpen == <<"<", "s", "u", "p", ">">>
SupClose == <<"<", "/", "s", "u", "p", ">">>

\* headingWrapper with no space after the closing brackets
headingWrapperTight(options, text) ==
  IF options.headingWrapper = "TEXT"
  THEN <<"[", "[">> \o text \o <<"]", "]">>
  ELSE <<"\n", "#", "#", "#", " ">> \o text \o <<"\n">>

\* options.headingWrapper(text)
headingWrapper(options, text) ==
  IF options.headingWrapper = "TEXT"
  THEN <<"[", "[">> \o text \o <<"]", "]", " ">>
  ELSE <<"\n", "#", "#", "#", " ">> \o text \o <<"\n">>

\* options.subtitleWrapper(text)
subtitleWrapper(options, text) ==
  IF options.subtitleWrapper = "TEXT"
  THEN <<LeftGuillemet>> \o text \o <<RightGuillemet, " ">>
  ELSE <<">", " ", "_">> \o text \o <<"_">>

\* options.footnoteMarker(index)
footnoteMarker(options, index) ==
  IF options.footnoteMarker = "TEXT"
  THEN <<Degree>>
  ELSE SupOpen \o <<FromCharCode97(index % 26)>> \o SupClose

HeadingPrefix == <<"H", "e", "a", "d", "i", "n", "g", ".">>
SubtitlePrefix == <<"S", "u", "b", "t", "i", "t", "l", "e", ".">>

----------------------------------------------------------------------------
(* renderTextObject, step by step.  A render returns the string and the    *)
(* footnotes array as the call leaves it: [out |-> s, footnotes |-> fs].   *)

\* paragraphPart with the marker pushed as the policy gives it, whatever
\* the footnote style
paragraphPartUnspaced(obj, ctx) ==
  IF Has(obj, "paragraph") /\ Truthy(obj.paragraph)
  THEN ctx.options.paragraphMarker
  ELSE <<>>

\* the paragraph marker pushed first
paragraphPart(obj, ctx) ==
  IF Has(obj, "paragraph") /\ Truthy(obj.paragraph)
  THEN IF ctx.options.footnoteStyle = "inline"
       THEN <<" ">> \o ctx.options.paragraphMarker
       ELSE ctx.options.paragraphMarker
  ELSE <<>>

\* obj.marks?.includes("sc")
hasSmallCaps(obj) ==
  Has(obj, "marks") /\ \E i \in 1..Len(obj.marks) : obj.marks[i] = "sc"

\* textPart with the sc mark ignored
textPartAsIs(obj) == IF Has(obj, "text") THEN obj.text ELSE <<>>

\* let text = obj.text || ""; upper-cased under the sc mark
textPart(obj) ==
  LET text == IF Has(obj, "text") THEN obj.text ELSE <<>>
  IN IF hasSmallCaps(obj) THEN ToUpperCase(text) ELSE text

\* obj.foot && ctx.options.includeFootnotes
rendersFootnote(obj, ctx) == Has(obj, "foot") /\ ctx.options.includeFootnotes

\* footnoteBodyContext with the options passed on as they are
footnoteBodyContextKeepingCodes(ctx) == [ctx EXCEPT !.footnotePrefix = <<>>]

\* the context a footnote body is rendered under
footnoteBodyContext(ctx) ==
  [ctx EXCEPT !.options = [@ EXCEPT !.includeStrongs = FALSE,
                                    !.includeMorph = FALSE],
              !.footnotePrefix = <<>>]

\* footnotePrefix with the override ignored
footnotePrefixOfVerse(ctx) == TemplateNum(ctx.verseNum) \o <<".">>

\* ctx.footnotePrefix || `${ctx.verseNum}.`
footnotePrefix(ctx) ==
  IF ctx.footnotePrefix # <<>> THEN ctx.footnotePrefix
  ELSE TemplateNum(ctx.verseNum) \o <<".">>

\* `- ${marker} ${prefix} ${footnoteContent}`
footnoteEntry(marker, prefix, footnoteContent) ==
  <<"-", " ">> \o marker \o <<" ">> \o prefix \o <<" ">> \o footnoteContent

\* inlineTrailingSpace with the space left out
inlineTrailingSpaceNone(text, obj) == <<>>

\* the space pushed after the closing brace of a text-less inline footnote
inlineTrailingSpace(text, obj) ==
  IF text = <<>> /\ ~(Has(obj, "strong") /\ obj.strong # <<>>)
  THEN <<" ">> ELSE <<>>

\* `{${footnoteContent}}` and its trailing space
inlineFootnote(footnoteContent, text, obj) ==
  <<"{">> \o footnoteContent \o <<"}">> \o inlineTrailingSpace(text, obj)

\* strongPart as the earlier exporter had it: no space before the code of a
\* text-less node
strongPartBare(obj, ctx) ==
  IF Has(obj, "strong") /\ obj.strong # <<>> /\ ctx.options.includeStrongs
  THEN IF textPart(obj) = <<>> THEN obj.strong ELSE <<" ">> \o obj.strong
  ELSE <<>>

strongPart(obj, ctx) ==
  IF Has(obj, "strong") /\ obj.strong # <<>> /\ ctx.options.includeStrongs
  THEN <<" ">> \o obj.strong ELSE <<>>

morphPart(obj, ctx) ==
  IF Has(obj, "morph") /\ obj.morph # <<>> /\ ctx.options.includeMorph
  THEN <<" ", "(">> \o obj.morph \o <<")">> ELSE <<>>

breakPart(obj, ctx) ==
  IF Has(obj, "break") /\ obj.break THEN ctx.options.lineBreakMarker ELSE <<>>

\* footnoteParts with the body inlined whatever the footnote style
footnotePartsInlined(obj, ctx, text, footnoteContent) ==
  <<footnoteMarker(ctx.options, Len(ctx.footnotes)),
    inlineFootnote(footnoteContent, text, obj)>>

\* parts pushed for the footnote: the marker, then the inline body if any
footnoteParts(obj, ctx, text, footnoteContent) ==
  LET marker == footnoteMarker(ctx.options, Len(ctx.footnotes))
  IN IF ctx.options.footnoteStyle = "inline"
     THEN <<marker, inlineFootnote(footnoteContent, text, obj)>>
     ELSE <<marker>>

\* footnotesAfter with the entry put in front of the array (unshift)
footnotesAfterInFront(ctx, body) ==
  IF ctx.options.footnoteStyle = "inline"
  THEN body.footnotes
  ELSE <<footnoteEntry(footnoteMarker(ctx.options, Len(ctx.footnotes)),
                       footnotePrefix(ctx), body.out)>>
       \o body.footnotes

\* ctx.footnotes after the footnote of obj was handled; body is the render
\* of the footnote's content, which shares the array
footnotesAfter(ctx, body) ==
  IF ctx.options.footnoteStyle = "inline"
  THEN body.footnotes
  ELSE Append(body.footnotes,
              footnoteEntry(footnoteMarker(ctx.options, Len(ctx.footnotes)),
                            footnotePrefix(ctx), body.out))

renderTextObject(obj, ctx) ==
  LET text == textPart(obj)
      foot == rendersFootnote(obj, ctx)
      body == renderContent(obj.foot.content, footnoteBodyContext(ctx))
      parts ==
        <<paragraphPart(obj, ctx), text>>
        \o (IF foot THEN footnoteParts(obj, ctx, text, body.out) ELSE <<>>)
        \o <<strongPart(obj, ctx), morphPart(obj, ctx), breakPart(obj, ctx)>>
  IN [ out       |-> Join(parts),
       footnotes |-> IF foot THEN footnotesAfter(ctx, body) ELSE ctx.footnotes ]

----------------------------------------------------------------------------
(* renderContent *)

\* renderArray with a separating space put before every item but the first
renderArraySpaced(items, ctx, parts) ==
  IF items = <<>> THEN [parts |-> parts, footnotes |-> ctx.footnotes]
  ELSE LET r == renderContent(Head(items), ctx)
       IN renderArray(Tail(items), [ctx EXCEPT !.footnotes = r.footnotes],
                      Append(parts, IF parts = <<>> THEN r.out
                                    ELSE <<" ">> \o r.out))

\* content.map((item) => renderContent(item, ctx)): the parts rendered so
\* far and the shared footnotes array, after the items from position i on
renderArray(items, ctx, parts) ==
  IF items = <<>> THEN [parts |-> parts, footnotes |-> ctx.footnotes]
  ELSE LET r == renderContent(Head(items), ctx)
       IN renderArray(Tail(items), [ctx EXCEPT !.footnotes = r.footnotes],
                      Append(parts, r.out))

\* paragraph wrapper object: nested paragraph content, not the flag
isParagraphWrapper(content) ==
  Has(content, "paragraph") /\ ~IsBoolean(content.paragraph)

renderContent(content, ctx) ==
  IF IsString(content) THEN
    [out |-> content.str, footnotes |-> ctx.footnotes]
  ELSE IF IsArray(content) THEN
    LET r == renderArray(content.arr, ctx, <<>>)
    IN [out |-> Join(r.parts), footnotes |-> r.footnotes]
  ELSE IF Has(content, "heading") THEN
    LET inner == renderContent(content.heading,
                               [ctx EXCEPT !.footnotePrefix = HeadingPrefix])
    IN [out |-> headingWrapper(ctx.options, inner.out),
        footnotes |-> inner.footnotes]
  ELSE IF Has(content, "subtitle") THEN
    LET inner == renderContent(content.subtitle,
                               [ctx EXCEPT !.footnotePrefix = SubtitlePrefix])
    IN [out |-> subtitleWrapper(ctx.options, inner.out),
        footnotes |-> inner.footnotes]
  ELSE IF isParagraphWrapper(content) THEN
    renderContent(content.paragraph, ctx)
  ELSE
    renderTextObject(content, ctx)

----------------------------------------------------------------------------
(* Verse converters *)

\* the three clean-up replacements of convertVerseToText
cleanText(text) ==
  CollapseSpaces(StripTrailingSpaces(StripLeadingSpaces(text)))

convertVerseToText(verse) ==
  LET chapter == PadStart(NumToString(verse.chapter), 3, "0")
      verseNum == PadStart(NumToString(verse.verse), 3, "0")
      ctx == [ options        |-> TEXT_OPTIONS,
               footnotes      |-> <<>>,
               verseNum       |-> <<verse.verse>>,
               footnotePrefix |-> <<>> ]
      text == renderContent(verse.content, ctx).out
  IN chapter \o <<":">> \o verseNum \o <<" ">> \o cleanText(text)

\* verse.content is an array whose first item is a heading object
startsWithHeading(content) ==
  /\ IsArray(content)
  /\ Len(content.arr) > 0
  /\ IsObject(content.arr[1])
  /\ Has(content.arr[1], "heading")

\* "paragraph" in first || first.paragraph, for an object
paragraphInObject(first) == Has(first, "paragraph")

\* the leading-paragraph test of convertVerseToMarkdown
hasLeadingParagraph(processedContent) ==
  IF IsArray(processedContent) /\ Len(processedContent.arr) > 0
  THEN IsObject(processedContent.arr[1])
       /\ paragraphInObject(processedContent.arr[1])
  ELSE IsObject(processedContent) /\ ~IsArray(processedContent)
       /\ paragraphInObject(processedContent)

\* the clean-up replacements of convertVerseToMarkdown
cleanMarkdown(text) ==
  SpaceBeforePunctuation(CollapseSpaces(StripLeadingSpaces(text)))

\* processedContent with the heading left in the content
processedContentWhole(verse) == verse.content

\* the content rendered as the body of the line: verse.content, or
\* verse.content.slice(1) when a leading heading was taken
processedContent(verse) ==
  IF startsWithHeading(verse.content) THEN Arr(Tail(verse.content.arr))
  ELSE verse.content

\* returns the line and the chapterFootnotes array as the call leaves it
convertVerseToMarkdown(verse, chapterFootnotes) ==
  LET ctx == [ options        |-> MARKDOWN_OPTIONS,
               footnotes      |-> chapterFootnotes,
               verseNum       |-> <<verse.verse>>,
               footnotePrefix |-> <<>> ]
      withHeading == startsWithHeading(verse.content)
      heading == renderContent(verse.content.arr[1].heading,
                               [ctx EXCEPT !.footnotePrefix = HeadingPrefix])
      headingPrefix ==
        IF withHeading
        THEN <<"\n", "#", "#", "#", " ">> \o heading.out \o <<"\n">>
        ELSE <<>>
      content == processedContent(verse)
      afterHeading == IF withHeading THEN heading.footnotes ELSE chapterFootnotes
      leading == hasLeadingParagraph(content)
      body == renderContent(content, [ctx EXCEPT !.footnotes = afterHeading])
      text == cleanMarkdown(IF leading THEN StripLeadingBlankLine(body.out)
                            ELSE body.out)
      paragraphPrefix == IF leading THEN <<"\n">> ELSE <<>>
  IN [ out |-> headingPrefix \o paragraphPrefix \o SupOpen
               \o NumToString(verse.verse) \o SupClose \o <<" ">> \o text,
       footnotes |-> body.footnotes ]

----------------------------------------------------------------------------
(* Inputs: the Content trees the converters are called on *)

\* an optional property: <<>> when absent, <<v>> when present
Opt(values) == {<<>>} \cup {<<v>> : v \in values}
Prop(name, opt) == IF opt = <<>> THEN <<>> ELSE name :> opt[1]

StrongOuter == <<"G", "7">>
StrongInner == <<"G", "8">>
MorphOuter == <<"V">>
MorphInner == <<"W">>

FootPlain == [type |-> "var", content |-> Str(<<"n">>)]
FootCodes ==
  [content |-> Arr(<<[text |-> <<"n">>, strong |-> StrongInner,
                      morph |-> MorphInner],
                     Str(<<" ", "m">>)>>)]
FootNested ==
  [content |-> [text |-> <<"n">>, strong |-> StrongInner,
                foot |-> [content |-> Str(<<"m">>)]]]
Foots == {FootPlain, FootCodes, FootNested}

TextValues == {<<"a">>, <<" ", "b">>, <<"a", " ">>, <<".">>}

\* every Text Object over the sample values, the empty object included
TextObjects ==
  { Prop("text", t) @@ Prop("foot", f) @@ Prop("strong", s)
      @@ Prop("morph", m) @@ Prop("paragraph", p) @@ Prop("break", b)
      @@ Prop("marks", k) :
      t \in Opt(TextValues), f \in Opt(Foots), s \in Opt({StrongOuter}),
      m \in Opt({MorphOuter}), p \in Opt({Bool(TRUE)}), b \in Opt({TRUE}),
      k \in Opt({<<"sc">>}) }

\* the elements arrays are built from
ArrayItems ==
  { Str(<<"a">>),
    Str(<<" ", "b">>),
    [text |-> <<"a">>, strong |-> StrongOuter],
    [strong |-> StrongOuter],
    [foot |-> FootPlain],
    [text |-> <<"a", " ">>, foot |-> FootCodes, strong |-> StrongOuter,
     morph |-> MorphOuter],
    [paragraph |-> Bool(TRUE), text |-> <<" ", "b">>],
    [heading |-> [text |-> <<"a">>, strong |-> StrongOuter,
                  foot |-> FootNested]],
    [subtitle |-> Arr(<<[text |-> <<"b">>, foot |-> FootPlain],
                        [strong |-> StrongOuter]>>)] }

RECURSIVE SeqsUpTo(_, _)
\* the sequences over S of length at most n
SeqsUpTo(S, n) ==
  IF n = 0 THEN {<<>>}
  ELSE LET shorter == SeqsUpTo(S, n - 1)
       IN shorter \cup {Append(q, x) : q \in shorter, x \in S}

Arrays == {Arr(q) : q \in SeqsUpTo(ArrayItems, MaxItems)}

\* what a wrapper or a nested group holds
Inners ==
  ArrayItems
  \cup { Arr(<<[text |-> <<"a">>, foot |-> FootPlain], Str(<<" ", "b">>)>>),
         [text |-> <<"b">>, foot |-> FootCodes, paragraph |-> Bool(TRUE)] }

Wrappers ==
  {[heading |-> c] : c \in Inners}
  \cup {[subtitle |-> c] : c \in Inners}
  \cup {[paragraph |-> c] : c \in Inners}

NestedGroups ==
  { [content |-> c] @@ Prop("strong", s) @@ Prop("foot", f)
      @@ Prop("paragraph", p) :
      c \in Inners, s \in Opt({StrongOuter}), f \in Opt({FootPlain}),
      p \in Opt({Bool(TRUE)}) }

Others ==
  { Str(<<>>), Str(<<"a", " ", " ", "b", " ", ".">>),
    [paragraph |-> Bool(FALSE), text |-> <<"a">>],
    [lemma |-> <<"b">>],
    [text |-> <<>>, foot |-> FootPlain],
    [text |-> <<"a", "b">>, marks |-> <<"i", "b">>, foot |-> FootPlain],
    [text |-> <<"A", "b">>, marks |-> <<"i", "sc">>, strong |-> StrongOuter],
    Arr(<<Str(<<"a", " ">>),
          [text |-> <<"B", "a", "n", "m">>, marks |-> <<"sc">>,
           strong |-> StrongOuter]>>),
    [note |-> <<"n">>],
    Arr(<<Str(<<"a">>), [note |-> <<"n">>], Str(<<" ", "b">>)>>) }

Contents == TextObjects \cup Arrays \cup Wrappers \cup NestedGroups \cup Others

\* the verses that follow the first one converted on an accumulator
LaterContents ==
  { Str(<<"a">>),
    [text |-> <<"a">>, strong |-> StrongOuter, morph |-> MorphOuter],
    [text |-> <<"b">>, foot |-> FootNested, strong |-> StrongOuter],
    Arr(<<[heading |-> [text |-> <<"a">>, foot |-> FootPlain]],
          [text |-> <<"b">>, foot |-> FootCodes]>>),
    Arr(<<[subtitle |-> [foot |-> FootPlain]], [strong |-> StrongOuter]>>) }

\* the n-th call is made on a verse of chapter 23: verse 2, then 104, 105, ...
Reference(n) == [chapter |-> 23, verse |-> IF n = 0 THEN 2 ELSE 103 + n]

Verses(contents, n) ==
  { [chapter |-> Reference(n).chapter, verse |-> Reference(n).verse,
     content |-> c] : c \in contents }

\* verses whose chapter and verse numbers have one, two and three digits
NumberedVerses ==
  { [chapter |-> c, verse |-> n, content |-> x] :
      c \in {1, 23, 150, 999}, n \in {1, 10, 176, 999},
      x \in {Str(<<"a">>), Arr(<<Str(<<"a", " ">>), [foot |-> FootPlain]>>)} }

\* number of footnotes earlier verses of the chapter left in the accumulator
EarlierFootnotes == 25

\* an accumulator as n footnotes of verse 1 leave it
Accumulated(n) ==
  [ i \in 1..n |->
      footnoteEntry(footnoteMarker(MARKDOWN_OPTIONS, i - 1), <<"1", ".">>,
                    <<"n">>) ]

\* the policies renderContent is called under
Policies ==
  { TEXT_OPTIONS, MARKDOWN_OPTIONS,
    [TEXT_OPTIONS EXCEPT !.includeFootnotes = FALSE] }

----------------------------------------------------------------------------
(* State: one caller holding a footnotes array and calling the converters  *)

VARIABLES
  verse,             \* the verse passed to the call in progress or last made
  options,           \* the policy of that call
  chapterFootnotes,  \* the caller's footnotes array
  before,            \* chapterFootnotes as it was when the call started
  parts,             \* renderContent on an array: the parts mapped so far
  result,            \* the string the last call returned
  op,                \* "none", "text", "markdown", "map", "rendered"
  calls,             \* number of calls started
  verses,            \* convertBibleVersionToMarkdown: the verses parsed
  loaded,            \* verses as JSON.parse returned them
  markdownLines,     \* the lines pushed so far
  chapter,           \* position of the chapter loop in sortedChapters
  next,              \* position of the verse loop in chapterVerses
  pc,                \* the step of the chapter loop to take next
  file,              \* what writeFileSync wrote
  dirExists,         \* getBibleVersions: fs.existsSync(dir)
  dirItems,          \* items: what fs.readdirSync(dir) lists, in its order
  itemAt,            \* position of the loop in items
  versions,          \* the versions pushed so far
  outcome,           \* "call", "loop", "returned", "thrown"
  returned,          \* the array returned
  thrown             \* the message of the Error thrown

\* the variables of a caller of the exported converters
callVars == <<verse, options, before, parts, result, op, calls>>

\* the variables of convertBibleVersionToMarkdown
bookVars == <<verses, loaded, markdownLines, chapter, next, pc, file>>

\* the variables of getBibleVersions
dirVars == <<dirExists, dirItems, itemAt, versions, outcome, returned, thrown>>

vars == <<verse, options, chapterFootnotes, before, parts, result, op, calls,
          verses, loaded, markdownLines, chapter, next, pc, file,
          dirExists, dirItems, itemAt, versions, outcome, returned, thrown>>

\* no call of getBibleVersions is under way
NoDirectoryCall ==
  /\ dirExists = FALSE
  /\ dirItems = <<>>
  /\ itemAt = 0
  /\ versions = <<>>
  /\ outcome = "idle"
  /\ returned = <<>>
  /\ thrown = <<>>

Init ==
  /\ verse = [chapter |-> 1, verse |-> 1, content |-> Str(<<>>)]
  /\ options = TEXT_OPTIONS
  /\ chapterFootnotes \in {<<>>, Accumulated(EarlierFootnotes)}
  /\ before = chapterFootnotes
  /\ parts = <<>>
  /\ result = <<>>
  /\ op = "none"
  /\ calls = 0
  /\ verses = <<>>
  /\ loaded = <<>>
  /\ markdownLines = <<>>
  /\ chapter = 0
  /\ next = 0
  /\ pc = "idle"
  /\ file = <<>>
  /\ NoDirectoryCall

CanCall == op # "map" /\ calls < MaxCalls

Inputs == Verses(IF calls = 0 THEN Contents ELSE LaterContents, calls)

\* convertVerseToText is also called on the numbered verses, first on an
\* accumulator
TextInputs == Inputs \cup (IF calls = 0 THEN NumberedVerses ELSE {})

\* the context of a renderContent call made for verse v under policy o
Context(v, o, footnotes) ==
  [ options        |-> o,
    footnotes      |-> footnotes,
    verseNum       |-> <<v.verse>>,
    footnotePrefix |-> <<>> ]

ConvertVerseToText(v) ==
  /\ CanCall
  /\ verse' = v
  /\ options' = TEXT_OPTIONS
  /\ before' = chapterFootnotes
  /\ result' = convertVerseToText(v)
  /\ op' = "text"
  /\ calls' = calls + 1
  /\ parts' = <<>>
  /\ UNCHANGED chapterFootnotes
  /\ UNCHANGED <<bookVars, dirVars>>

ConvertVerseToMarkdown(v) ==
  /\ CanCall
  /\ LET r == convertVerseToMarkdown(v, chapterFootnotes)
     IN /\ result' = r.out
        /\ chapterFootnotes' = r.footnotes
  /\ verse' = v
  /\ options' = MARKDOWN_OPTIONS
  /\ before' = chapterFootnotes
  /\ op' = "markdown"
  /\ calls' = calls + 1
  /\ parts' = <<>>
  /\ UNCHANGED <<bookVars, dirVars>>

\* renderContent entered with an array: the map starts
RenderArrayBegin(v, o) ==
  /\ CanCall
  /\ IsArray(v.content)
  /\ verse' = v
  /\ options' = o
  /\ before' = chapterFootnotes
  /\ parts' = <<>>
  /\ result' = <<>>
  /\ op' = "map"
  /\ calls' = calls + 1
  /\ UNCHANGED chapterFootnotes
  /\ UNCHANGED <<bookVars, dirVars>>

\* renderContent called on a string or an object: it dispatches and returns
RenderContentCall(v, o) ==
  /\ CanCall
  /\ ~IsArray(v.content)
  /\ LET r == renderContent(v.content, Context(v, o, chapterFootnotes))
     IN /\ result' = r.out
        /\ chapterFootnotes' = r.footnotes
  /\ verse' = v
  /\ options' = o
  /\ before' = chapterFootnotes
  /\ parts' = <<>>
  /\ op' = "rendered"
  /\ calls' = calls + 1
  /\ UNCHANGED <<bookVars, dirVars>>

\* one callback of content.map: the next item is rendered under ctx
MapItem ==
  /\ op = "map"
  /\ Len(parts) < Len(verse.content.arr)
  /\ LET r == renderContent(verse.content.arr[Len(parts) + 1],
                            Context(verse, options, chapterFootnotes))
     IN /\ parts' = Append(parts, r.out)
        /\ chapterFootnotes' = r.footnotes
  /\ UNCHANGED <<verse, options, before, result, op, calls>>
  /\ UNCHANGED <<bookVars, dirVars>>

\* .join("") once every item is mapped
JoinParts ==
  /\ op = "map"
  /\ Len(parts) = Len(verse.content.arr)
  /\ result' = Join(parts)
  /\ op' = "rendered"
  /\ UNCHANGED <<verse, options, chapterFootnotes, before, parts, calls>>
  /\ UNCHANGED <<bookVars, dirVars>>

Next ==
  \/ \E v \in TextInputs : ConvertVerseToText(v)
  \/ \E v \in Inputs : ConvertVerseToMarkdown(v)
  \/ \E v \in Inputs, o \in Policies : RenderContentCall(v, o)
  \/ \E v \in Inputs, o \in Policies : RenderArrayBegin(v, o)
  \/ MapItem
  \/ JoinParts

Spec == Init /\ [][Next]_vars

----------------------------------------------------------------------------
(* convertBibleVersionToMarkdown on the verses of one book file.  A verse  *)
(* object is named by its position in verses: the arrays of the chapters   *)
(* map hold the same objects, so an assignment to chapterVerses[0].content *)
(* is an assignment to that element of verses.                             *)

\* longest book file
MaxVerses == 3

ChapterHeader(chapterNum) ==
  <<"#", "#", " ", "C", "h", "a", "p", "t", "e", "r", " ">>
  \o NumToString(chapterNum)

RECURSIVE Ascending(_)
\* the numbers of S sorted with (a, b) => a - b
Ascending(S) ==
  IF S = {} THEN <<>>
  ELSE LET least == CHOOSE a \in S : \A b \in S : a <= b
       IN <<least>> \o Ascending(S \ {least})

\* sortedChapters with the chapters left in the order the Map met them
sortedChaptersAsMet(vs) ==
  LET at == SelectSeq(Indices(vs),
                      LAMBDA i : \A j \in 1..(i - 1) :
                                   vs[j].chapter # vs[i].chapter)
  IN [k \in 1..Len(at) |->
        [chapterNum    |-> vs[at[k]].chapter,
         chapterVerses |->
           SelectSeq(Indices(vs),
                     LAMBDA i : vs[i].chapter = vs[at[k]].chapter)]]

\* Array.from(chapters.entries()).sort(...): each chapter number present,
\* ascending, with the verses of that chapter in the order of the file
sortedChapters(vs) ==
  LET numbers == Ascending({vs[i].chapter : i \in 1..Len(vs)})
  IN [k \in 1..Len(numbers) |->
        [chapterNum    |-> numbers[k],
         chapterVerses |->
           SelectSeq(Indices(vs), LAMBDA i : vs[i].chapter = numbers[k])]]

\* the chapter the loop is at
chapterNum == sortedChapters(verses)[chapter].chapterNum
chapterVerses == sortedChapters(verses)[chapter].chapterVerses

\* chapterVerses[0].content is an array whose first item is a field object
firstItemIs(content, field) ==
  /\ IsArray(content)
  /\ Len(content.arr) > 0
  /\ IsObject(content.arr[1])
  /\ Has(content.arr[1], field)

\* the first-verse leading-paragraph test of the chapter loop
firstVerseHasLeadingParagraph(firstContent) ==
  IF IsObject(firstContent) /\ ~IsArray(firstContent)
  THEN Has(firstContent, "paragraph")
  ELSE IF IsArray(firstContent) /\ Len(firstContent.arr) > 0
  THEN IsObject(firstContent.arr[1]) /\ Has(firstContent.arr[1], "paragraph")
  ELSE FALSE

\* contents found in any verse of a book file
BookContents ==
  { Str(<<"a">>),
    [paragraph |-> Bool(TRUE), text |-> <<"a">>, foot |-> FootPlain],
    Arr(<<[heading |-> [text |-> <<"a">>, foot |-> FootNested]],
          [paragraph |-> Bool(TRUE), text |-> <<" ", "b">>]>>) }

SubtitleThenText ==
  Arr(<<[subtitle |-> [text |-> <<"b">>, foot |-> FootPlain]],
        [text |-> <<"a">>]>>)

SubtitleThenHeading ==
  Arr(<<[subtitle |-> Str(<<"b">>)], [heading |-> Str(<<"a">>)],
        [text |-> <<"a">>, foot |-> FootPlain]>>)

TwoHeadings ==
  Arr(<<[heading |-> Str(<<"a">>)],
        [heading |-> [text |-> <<"b">>, foot |-> FootPlain]],
        [paragraph |-> Bool(TRUE), text |-> <<"a">>]>>)

GroupWithFootnote ==
  Arr(<<Str(<<"a">>),
        [content |-> [text |-> <<"b">>, foot |-> FootPlain]]>>)

\* the verses of a book file; chapter 10 follows chapter 2 in numeric order
\* only
BookVerses ==
  { [chapter |-> c, verse |-> n, content |-> x] :
      c \in {1, 2}, n \in {1, 2}, x \in BookContents }
  \cup { [chapter |-> 2, verse |-> 2, content |-> SubtitleThenText],
         [chapter |-> 1, verse |-> 1, content |-> SubtitleThenHeading],
         [chapter |-> 2, verse |-> 1, content |-> SubtitleThenHeading],
         [chapter |-> 1, verse |-> 1, content |-> TwoHeadings],
         [chapter |-> 2, verse |-> 2, content |-> GroupWithFootnote],
         [chapter |-> 10, verse |-> 1, content |-> Str(<<"a">>)] }

\* the book files: the verses in any order
Books == SeqsUpTo(BookVerses, MaxVerses)

BookInit ==
  /\ verses \in Books
  /\ loaded = verses
  /\ markdownLines = <<>>
  /\ chapterFootnotes = <<>>
  /\ chapter = 1
  /\ next = 0
  /\ pc = "start"
  /\ file = <<>>
  /\ verse = [chapter |-> 1, verse |-> 1, content |-> Str(<<>>)]
  /\ options = MARKDOWN_OPTIONS
  /\ before = <<>>
  /\ parts = <<>>
  /\ result = <<>>
  /\ op = "none"
  /\ calls = 0
  /\ NoDirectoryCall

\* if (verses.length === 0) continue
SkipEmptyFile ==
  /\ pc = "start"
  /\ Len(verses) = 0
  /\ pc' = "skipped"
  /\ UNCHANGED <<verses, loaded, markdownLines, chapter, next, file>>
  /\ UNCHANGED <<chapterFootnotes, callVars, dirVars>>

\* the verses are grouped and the chapters sorted
GroupChapters ==
  /\ pc = "start"
  /\ Len(verses) > 0
  /\ chapter' = 1
  /\ pc' = "chapter"
  /\ UNCHANGED <<verses, loaded, markdownLines, next, file>>
  /\ UNCHANGED <<chapterFootnotes, callVars, dirVars>>

\* BeginChapter with the footnotes array of the chapter before kept
BeginChapterSharing ==
  /\ pc = "chapter"
  /\ chapter <= Len(sortedChapters(verses))
  /\ markdownLines' =
       markdownLines \o (IF chapterNum > 1 THEN <<<<>>>> ELSE <<>>)
                     \o <<ChapterHeader(chapterNum)>>
  /\ pc' = "subtitle"
  /\ UNCHANGED <<verses, loaded, chapter, next, file, callVars, dirVars>>
  /\ UNCHANGED chapterFootnotes

\* the chapter loop is entered: the header and a new footnotes array
BeginChapter ==
  /\ pc = "chapter"
  /\ chapter <= Len(sortedChapters(verses))
  /\ markdownLines' =
       markdownLines \o (IF chapterNum > 1 THEN <<<<>>>> ELSE <<>>)
                     \o <<ChapterHeader(chapterNum)>>
  /\ chapterFootnotes' = <<>>
  /\ pc' = "subtitle"
  /\ UNCHANGED <<verses, loaded, chapter, next, file, callVars, dirVars>>

\* check for subtitle in first verse
ExtractSubtitle ==
  /\ pc = "subtitle"
  /\ LET first == chapterVerses[1]
         firstContent == verses[first].content
     IN IF firstItemIs(firstContent, "subtitle")
        THEN LET ctx == [ options        |-> MARKDOWN_OPTIONS,
                          footnotes      |-> chapterFootnotes,
                          verseNum       |-> <<verses[first].verse>>,
                          footnotePrefix |-> SubtitlePrefix ]
                 subtitleText == renderContent(firstContent.arr[1].subtitle,
                                               ctx)
             IN /\ markdownLines' =
                     markdownLines
                     \o << <<>>, <<">", " ", "_">> \o subtitleText.out
                                   \o <<"_">> >>
                /\ chapterFootnotes' = subtitleText.footnotes
                /\ verses' = [verses EXCEPT
                                ![first].content = Arr(Tail(firstContent.arr))]
        ELSE UNCHANGED <<markdownLines, chapterFootnotes, verses>>
  /\ pc' = "heading"
  /\ UNCHANGED <<loaded, chapter, next, file, callVars, dirVars>>

\* ExtractHeading with the heading left in the content of the first verse
ExtractHeadingKeeping ==
  /\ pc = "heading"
  /\ LET first == chapterVerses[1]
         firstContent == verses[first].content
     IN IF firstItemIs(firstContent, "heading")
        THEN LET ctx == [ options        |-> MARKDOWN_OPTIONS,
                          footnotes      |-> chapterFootnotes,
                          verseNum       |-> <<>>,
                          footnotePrefix |-> HeadingPrefix ]
                 headingText == renderContent(firstContent.arr[1].heading, ctx)
             IN /\ markdownLines' =
                     markdownLines
                     \o << <<>>, <<"#", "#", "#", " ">> \o headingText.out >>
                /\ chapterFootnotes' = headingText.footnotes
                /\ UNCHANGED verses
        ELSE UNCHANGED <<markdownLines, chapterFootnotes, verses>>
  /\ pc' = "paragraph"
  /\ UNCHANGED <<loaded, chapter, next, file, callVars, dirVars>>

\* check for heading in first verse
ExtractHeading ==
  /\ pc = "heading"
  /\ LET first == chapterVerses[1]
         firstContent == verses[first].content
     IN IF firstItemIs(firstContent, "heading")
        THEN LET ctx == [ options        |-> MARKDOWN_OPTIONS,
                          footnotes      |-> chapterFootnotes,
                          verseNum       |-> <<>>,
                          footnotePrefix |-> HeadingPrefix ]
                 headingText == renderContent(firstContent.arr[1].heading, ctx)
             IN /\ markdownLines' =
                     markdownLines
                     \o << <<>>, <<"#", "#", "#", " ">> \o headingText.out >>
                /\ chapterFootnotes' = headingText.footnotes
                /\ verses' = [verses EXCEPT
                                ![first].content = Arr(Tail(firstContent.arr))]
        ELSE UNCHANGED <<markdownLines, chapterFootnotes, verses>>
  /\ pc' = "paragraph"
  /\ UNCHANGED <<loaded, chapter, next, file, callVars, dirVars>>

\* check for leading paragraph on first verse
SeparateFirstVerse ==
  /\ pc = "paragraph"
  /\ markdownLines' =
       IF firstVerseHasLeadingParagraph(verses[chapterVerses[1]].content)
       THEN markdownLines
       ELSE Append(markdownLines, <<>>)
  /\ next' = 1
  /\ pc' = "verses"
  /\ UNCHANGED <<verses, loaded, chapter, file>>
  /\ UNCHANGED <<chapterFootnotes, callVars, dirVars>>

\* for (const verse of chapterVerses): one verse converted and pushed
ConvertChapterVerse ==
  /\ pc = "verses"
  /\ next <= Len(chapterVerses)
  /\ LET verseText == convertVerseToMarkdown(verses[chapterVerses[next]],
                                             chapterFootnotes)
     IN /\ markdownLines' = Append(markdownLines, verseText.out)
        /\ chapterFootnotes' = verseText.footnotes
  /\ next' = next + 1
  /\ UNCHANGED <<verses, loaded, chapter, pc, file, callVars, dirVars>>

\* the footnotes of the chapter are pushed and the loop moves on
EndChapter ==
  /\ pc = "verses"
  /\ next > Len(chapterVerses)
  /\ markdownLines' =
       IF Len(chapterFootnotes) > 0
       THEN markdownLines \o << <<>> >>
            \o [k \in 1..Len(chapterFootnotes) |->
                  <<">", " ">> \o chapterFootnotes[k]]
       ELSE markdownLines
  /\ chapter' = chapter + 1
  /\ pc' = "chapter"
  /\ UNCHANGED <<verses, loaded, next, file>>
  /\ UNCHANGED <<chapterFootnotes, callVars, dirVars>>

RECURSIVE JoinLines(_)
\* markdownLines.join("\n")
JoinLines(lines) ==
  IF lines = <<>> THEN <<>>
  ELSE IF Len(lines) = 1 THEN lines[1]
  ELSE lines[1] \o <<"\n">> \o JoinLines(Tail(lines))

\* fs.writeFileSync(outputPath, markdownLines.join("\n") + "\n")
WriteFile ==
  /\ pc = "chapter"
  /\ chapter > Len(sortedChapters(verses))
  /\ file' = JoinLines(markdownLines) \o <<"\n">>
  /\ pc' = "written"
  /\ UNCHANGED <<verses, loaded, markdownLines, chapter, next>>
  /\ UNCHANGED <<chapterFootnotes, callVars, dirVars>>

BookNext ==
  \/ SkipEmptyFile
  \/ GroupChapters
  \/ BeginChapter
  \/ ExtractSubtitle
  \/ ExtractHeading
  \/ SeparateFirstVerse
  \/ ConvertChapterVerse
  \/ EndChapter
  \/ WriteFile

BookSpec == BookInit /\ [][BookNext]_vars

----------------------------------------------------------------------------
(* functions/getBibleVersions.ts: getBibleVersions on one directory.  An    *)
(* item of the directory is a plain file or a subdirectory; a subdirectory  *)
(* holds at most one _version.json, whose text either parses to a version   *)
(* or makes JSON.parse throw.                                               *)

\* most items a directory lists
MaxDirItems == 3

\* the collation of the characters version identifiers are written with:
\* digits before letters, the two cases of a letter together
PrimaryWeight(c) ==
  CASE c = "1" -> 1
    [] c \in {"a", "A"} -> 2
    [] c \in {"b", "B"} -> 3

IsLowerCase(c) == c \in {"a", "b"}

Sign(n) == IF n < 0 THEN -1 ELSE IF n > 0 THEN 1 ELSE 0

\* String.prototype.localeCompare: the letters decide first, the shorter of
\* two strings that agree comes first, and between strings that differ in
\* case only the first such place decides, lower case first
localeCompare(a, b) ==
  LET common == IF Len(a) < Len(b) THEN Len(a) ELSE Len(b)
      letters == {i \in 1..common : PrimaryWeight(a[i]) # PrimaryWeight(b[i])}
      cases == {i \in 1..common : IsLowerCase(a[i]) # IsLowerCase(b[i])}
      First(S) == CHOOSE i \in S : \A j \in S : i <= j
  IN IF letters # {}
     THEN Sign(PrimaryWeight(a[First(letters)])
               - PrimaryWeight(b[First(letters)]))
     ELSE IF Len(a) # Len(b) THEN Sign(Len(a) - Len(b))
     ELSE IF cases # {}
     THEN (IF IsLowerCase(a[First(cases)]) THEN -1 ELSE 1)
     ELSE 0

\* sortById with the array left in the order of the directory
sortByIdUnsorted(vs) == vs

\* versions.sort((a, b) => a._id.localeCompare(b._id)): the sort is stable
sortById(vs) ==
  LET ahead(k) ==
        {m \in 1..Len(vs) :
           \/ localeCompare(vs[m]._id, vs[k]._id) < 0
           \/ localeCompare(vs[m]._id, vs[k]._id) = 0 /\ m < k}
  IN [p \in 1..Len(vs) |->
        vs[CHOOSE k \in 1..Len(vs) : Cardinality(ahead(k)) = p - 1]]

VersionIds == {<<"A", "1">>, <<"a", "1">>, <<"A">>, <<"B">>, <<"a", "B">>}

\* the texts of a _version.json: a version, or text JSON.parse rejects
VersionFiles ==
  {[json |-> TRUE, value |-> [_id |-> id, license |-> l]] :
      id \in VersionIds, l \in {"MIT", "CC0-1.0"}}
  \cup {[json |-> FALSE]}

\* the items of a directory; versionFile is <<>> when the subdirectory has
\* no _version.json
DirItems ==
  {[directory |-> FALSE]}
  \cup {[directory |-> TRUE, versionFile |-> <<>>]}
  \cup {[directory |-> TRUE, versionFile |-> <<f>>] : f \in VersionFiles}

\* `Bible versions directory not found: ${dir}`
NotFoundMessage(dir) == <<"Bible versions directory not found: ", dir>>

DirInit ==
  /\ dirExists \in BOOLEAN
  /\ dirItems \in (IF dirExists THEN SeqsUpTo(DirItems, MaxDirItems)
                   ELSE {<<>>})
  /\ itemAt = 0
  /\ versions = <<>>
  /\ outcome = "call"
  /\ returned = <<>>
  /\ thrown = <<>>
  /\ verse = [chapter |-> 1, verse |-> 1, content |-> Str(<<>>)]
  /\ options = TEXT_OPTIONS
  /\ chapterFootnotes = <<>>
  /\ before = <<>>
  /\ parts = <<>>
  /\ result = <<>>
  /\ op = "none"
  /\ calls = 0
  /\ verses = <<>>
  /\ loaded = <<>>
  /\ markdownLines = <<>>
  /\ chapter = 0
  /\ next = 0
  /\ pc = "idle"
  /\ file = <<>>

\* what a step of getBibleVersions leaves alone
DirFrame == UNCHANGED <<chapterFootnotes, callVars, bookVars, dirExists,
                        dirItems>>

\* if (!fs.existsSync(dir)) throw new Error(...)
ThrowNotFound ==
  /\ outcome = "call"
  /\ ~dirExists
  /\ thrown' = NotFoundMessage("dir")
  /\ outcome' = "thrown"
  /\ UNCHANGED <<itemAt, versions, returned>>
  /\ DirFrame

\* const items = fs.readdirSync(dir); const versions = []
ReadDirectory ==
  /\ outcome = "call"
  /\ dirExists
  /\ itemAt' = 1
  /\ versions' = <<>>
  /\ outcome' = "loop"
  /\ UNCHANGED <<returned, thrown>>
  /\ DirFrame

\* if (!stat.isDirectory()) continue
SkipPlainFile ==
  /\ outcome = "loop"
  /\ itemAt <= Len(dirItems)
  /\ ~dirItems[itemAt].directory
  /\ itemAt' = itemAt + 1
  /\ UNCHANGED <<versions, outcome, returned, thrown>>
  /\ DirFrame

\* if (!fs.existsSync(versionFilePath)) continue
SkipWithoutVersionFile ==
  /\ outcome = "loop"
  /\ itemAt <= Len(dirItems)
  /\ dirItems[itemAt].directory
  /\ dirItems[itemAt].versionFile = <<>>
  /\ itemAt' = itemAt + 1
  /\ UNCHANGED <<versions, outcome, returned, thrown>>
  /\ DirFrame

\* the try block: the file is read and parsed, the version pushed
PushVersion ==
  /\ outcome = "loop"
  /\ itemAt <= Len(dirItems)
  /\ dirItems[itemAt].directory
  /\ dirItems[itemAt].versionFile # <<>>
  /\ dirItems[itemAt].versionFile[1].json
  /\ versions' = Append(versions, dirItems[itemAt].versionFile[1].value)
  /\ itemAt' = itemAt + 1
  /\ UNCHANGED <<outcome, returned, thrown>>
  /\ DirFrame

\* the catch block: JSON.parse threw, the error is logged
LogParseError ==
  /\ outcome = "loop"
  /\ itemAt <= Len(dirItems)
  /\ dirItems[itemAt].directory
  /\ dirItems[itemAt].versionFile # <<>>
  /\ ~dirItems[itemAt].versionFile[1].json
  /\ itemAt' = itemAt + 1
  /\ UNCHANGED <<versions, outcome, returned, thrown>>
  /\ DirFrame

\* versions.sort(...); return versions
SortAndReturn ==
  /\ outcome = "loop"
  /\ itemAt > Len(dirItems)
  /\ returned' = sortById(versions)
  /\ versions' = sortById(versions)
  /\ outcome' = "returned"
  /\ UNCHANGED <<itemAt, thrown>>
  /\ DirFrame

DirNext ==
  \/ ThrowNotFound
  \/ ReadDirectory
  \/ SkipPlainFile
  \/ SkipWithoutVersionFile
  \/ PushVersion
  \/ LogParseError
  \/ SortAndReturn

DirSpec == DirInit /\ [][DirNext]_vars

----------------------------------------------------------------------------
(* Shapes of Content *)

\* an object renderContent hands to renderTextObject
IsTextObject(c) ==
  /\ ~IsString(c) /\ ~IsArray(c)
  /\ ~Has(c, "heading") /\ ~Has(c, "subtitle")
  /\ ~isParagraphWrapper(c)

\* a Nested Group: an object with a content property
IsNestedGroup(c) == IsTextObject(c) /\ Has(c, "content")

\* the render the call in progress or last made would give as one call
WholeRender == renderContent(verse.content, Context(verse, options, before))

----------------------------------------------------------------------------
(* C1 *)

\* C1: renderContent on an array returns the concatenation, in list order,
\* of renderContent on each element under the same context (the elements
\* rendered left to right on the shared footnotes array), with no character
\* inserted, dropped or reordered; the array is left as the elements left it.
C1_SequenceIsConcatenation ==
  (op = "rendered" /\ IsArray(verse.content)) =>
    /\ WholeRender.out = result
    /\ WholeRender.footnotes = chapterFootnotes

\* an array of three elements rendered under the Markdown policy, with
\* footnotes pushed by its elements
C1_Witness ==
  /\ op = "rendered"
  /\ IsArray(verse.content)
  /\ Len(verse.content.arr) = 3
  /\ options = MARKDOWN_OPTIONS
  /\ Len(chapterFootnotes) >= Len(before) + 2

----------------------------------------------------------------------------
(* C2 *)

\* the Text Object a Nested Group stands for: its annotations around the
\* rendered inner Content as text
GroupAsTextObject(group, innerOut) ==
  [f \in (DOMAIN group \ {"content"}) \cup {"text"} |->
     IF f = "text" THEN innerOut ELSE group[f]]

\* the render of a Nested Group as the rule states it
NestedGroupRender(group, ctx) ==
  LET inner == renderContent(group.content, ctx)
  IN renderTextObject(GroupAsTextObject(group, inner.out),
                      [ctx EXCEPT !.footnotes = inner.footnotes])

\* C2: a Nested Group renders as its inner Content, rendered under the same
\* context, with the group's own annotations applied around it as for a
\* Text Object whose text is the rendered inner Content.
C2_NestedGroupRendersInner ==
  (op = "rendered" /\ IsNestedGroup(verse.content)) =>
    result = NestedGroupRender(verse.content,
                               Context(verse, options, before)).out

----------------------------------------------------------------------------
(* C3 *)

\* the position of the first "}" of s at or after position i, 0 if none
RECURSIVE FirstClosingBrace(_, _)
FirstClosingBrace(s, i) ==
  IF i > Len(s) THEN 0
  ELSE IF s[i] = "}" THEN i
  ELSE FirstClosingBrace(s, i + 1)

RECURSIVE RemoveFootnoteSpans(_)
\* s with every match of the non-greedy pattern DEGREE { ... } deleted
RemoveFootnoteSpans(s) ==
  IF s = <<>> THEN <<>>
  ELSE IF /\ Len(s) >= 3
          /\ s[1] = Degree
          /\ s[2] = "{"
          /\ FirstClosingBrace(s, 3) > 0
       THEN RemoveFootnoteSpans(SubSeq(s, FirstClosingBrace(s, 3) + 1, Len(s)))
       ELSE <<Head(s)>> \o RemoveFootnoteSpans(Tail(s))

\* the line of verse v rendered under the annotated-text policy with
\* includeFootnotes = false, normalized as convertVerseToText does
LineWithoutFootnotes(v) ==
  LET text == renderContent(
                v.content,
                Context(v, [TEXT_OPTIONS EXCEPT !.includeFootnotes = FALSE],
                        <<>>)).out
  IN PadStart(NumToString(v.chapter), 3, "0") \o <<":">>
     \o PadStart(NumToString(v.verse), 3, "0") \o <<" ">> \o cleanText(text)

\* C3: deleting every footnote span from the line convertVerseToText returns
\* gives the line of the same verse rendered without footnotes.
C3_CleanFootnoteRemoval ==
  op = "text" => RemoveFootnoteSpans(result) = LineWithoutFootnotes(verse)

----------------------------------------------------------------------------
(* C4 *)

\* the letter of an accumulator entry "- <sup>L</sup> ..."
EntryLetter(entry) == entry[Len(<<"-", " ">> \o SupOpen) + 1]

\* C4: under the Markdown policy the entry at position k (from 0) of the
\* chapter accumulator carries the letter chr('a' + (k mod 26)), wherever
\* its footnote sits.
C4_FootnoteLettering ==
  op = "markdown" =>
    \A k \in 1..Len(chapterFootnotes) :
      EntryLetter(chapterFootnotes[k]) = FromCharCode97((k - 1) % 26)

----------------------------------------------------------------------------
(* C5, C6: a Text Object rendered alone under the annotated-text policy *)

\* the call last made was renderContent on a Text Object, annotated text
TextObjectRendered ==
  /\ op = "rendered"
  /\ options = TEXT_OPTIONS
  /\ IsTextObject(verse.content)

Field(obj, f) == IF Has(obj, f) THEN obj[f] ELSE <<>>
Flag(obj, f) == Has(obj, f) /\ Truthy(IF f = "break" THEN Bool(obj[f]) ELSE obj[f])

\* the text of obj as rendered: upper-cased under the sc mark
ShownText(obj) ==
  IF Has(obj, "marks") /\ "sc" \in {obj.marks[i] : i \in 1..Len(obj.marks)}
  THEN ToUpperCase(Field(obj, "text")) ELSE Field(obj, "text")

\* the body of obj's footnote, rendered without Strong's and morph codes
ShownBody(obj) ==
  renderContent(obj.foot.content,
                Context(verse, [TEXT_OPTIONS EXCEPT !.includeStrongs = FALSE,
                                                    !.includeMorph = FALSE],
                        <<>>)).out

\* the pieces of the annotated-text output of obj, each empty when its
\* field is absent
ParagraphPiece(obj) ==
  IF Flag(obj, "paragraph") THEN <<" ", Pilcrow, " ">> ELSE <<>>
FootnotePiece(obj) ==
  IF Has(obj, "foot") THEN <<Degree, "{">> \o ShownBody(obj) \o <<"}">>
  ELSE <<>>
StrongPiece(obj) ==
  IF Field(obj, "strong") # <<>> THEN <<" ">> \o obj.strong ELSE <<>>
MorphPiece(obj) ==
  IF Field(obj, "morph") # <<>> THEN <<" ", "(">> \o obj.morph \o <<")">>
  ELSE <<>>
BreakPiece(obj) == IF Flag(obj, "break") THEN <<BreakSymbol>> ELSE <<>>

TextlessSpace(obj) ==
  IF Has(obj, "foot") /\ Field(obj, "text") = <<>>
     /\ Field(obj, "strong") = <<>>
  THEN <<" ">> ELSE <<>>

IsFootnoteOnly(obj) ==
  /\ Has(obj, "foot")
  /\ Field(obj, "text") = <<>>
  /\ Field(obj, "strong") = <<>>
  /\ Field(obj, "morph") = <<>>

\* where the closing brace of obj's footnote span stands in the output
BracePosition(obj) ==
  Len(ParagraphPiece(obj)) + Len(ShownText(obj)) + Len(FootnotePiece(obj))

\* C6: a footnote-only node renders as its footnote span followed by
\* exactly one space; after the span of a footnote on non-empty text comes
\* no space other than the one that belongs to the node's own code.
C6_TextlessFootnoteSpace ==
  (TextObjectRendered /\ Has(verse.content, "foot")) =>
    LET obj == verse.content
        p == BracePosition(obj)
        rest == SubSeq(result, p + 1, Len(result))
    IN /\ result[p] = "}"
       /\ SubSeq(result, 1, p)
            = ParagraphPiece(obj) \o ShownText(obj) \o FootnotePiece(obj)
       /\ IsFootnoteOnly(obj) =>
            /\ rest # <<>> /\ rest[1] = " "
            /\ Len(rest) >= 2 => rest[2] # " "
       /\ Field(obj, "text") # <<>> =>
            rest = StrongPiece(obj) \o MorphPiece(obj) \o BreakPiece(obj)

\* a footnote-only node was rendered
C6_Witness ==
  /\ TextObjectRendered
  /\ IsFootnoteOnly(verse.content)
  /\ result = <<Degree, "{", "n", "}", " ">>

----------------------------------------------------------------------------
(* C7 *)

RECURSIVE Count(_, _)
\* how many times the character c stands in s
Count(s, c) ==
  IF s = <<>> THEN 0
  ELSE (IF Head(s) = c THEN 1 ELSE 0) + Count(Tail(s), c)

RECURSIVE OwnCodes(_, _)
RECURSIVE OwnCodesOfItems(_, _)
\* how many nodes the renderer visits in c outside every footnote body
\* carry the property f ("strong" or "morph"); the inner Content of a
\* Nested Group is not visited
OwnCodes(c, f) ==
  IF IsString(c) THEN 0
  ELSE IF IsArray(c) THEN OwnCodesOfItems(c.arr, f)
  ELSE IF Has(c, "heading") THEN OwnCodes(c.heading, f)
  ELSE IF Has(c, "subtitle") THEN OwnCodes(c.subtitle, f)
  ELSE IF isParagraphWrapper(c) THEN OwnCodes(c.paragraph, f)
  ELSE IF Field(c, f) # <<>> THEN 1 ELSE 0
OwnCodesOfItems(items, f) ==
  IF items = <<>> THEN 0
  ELSE OwnCodes(Head(items), f) + OwnCodesOfItems(Tail(items), f)

\* the rendered body of the line convertVerseToText returned
TextBody == SubSeq(result, 9, Len(result))

\* C7: in annotated text the codes of the nodes inside a footnote body are
\* not emitted, while every Strong's and morph code of a node outside the
\* footnote bodies is: of the footnote-bearing node, of its later siblings,
\* of later verses.
C7_SuppressionScopedToFootnoteBody ==
  op = "text" =>
    /\ Count(TextBody, "G") = OwnCodes(verse.content, "strong")
    /\ Count(TextBody, "(") = OwnCodes(verse.content, "morph")
    /\ Count(TextBody, StrongInner[2]) = 0
    /\ Count(TextBody, MorphInner[1]) = 0

\* a node with a footnote whose body carries codes, then a sibling with a
\* Strong's code: both own codes are in the line
C7_Witness ==
  /\ op = "text"
  /\ IsArray(verse.content)
  /\ Len(verse.content.arr) = 2
  /\ IsTextObject(verse.content.arr[1])
  /\ Has(verse.content.arr[1], "foot")
  /\ verse.content.arr[1].foot = FootCodes
  /\ Has(verse.content.arr[1], "strong")
  /\ IsTextObject(verse.content.arr[2])
  /\ Has(verse.content.arr[2], "strong")
  /\ Count(TextBody, "G") = 2

----------------------------------------------------------------------------
(* C8 *)

\* the entries the call last made pushed
Pushed ==
  SubSeq(chapterFootnotes, Len(before) + 1, Len(chapterFootnotes))

RECURSIVE FirstDot(_, _)
FirstDot(s, i) ==
  IF i > Len(s) THEN 0 ELSE IF s[i] = "." THEN i ELSE FirstDot(s, i + 1)

\* the prefix of an entry "- <sup>L</sup> P B": P, up to its dot
EntryPrefix(entry) ==
  LET from == Len(<<"-", " ">> \o SupOpen \o <<"a">> \o SupClose \o <<" ">>) + 1
  IN SubSeq(entry, from, FirstDot(entry, from))

PushedPrefixes == [k \in 1..Len(Pushed) |-> EntryPrefix(Pushed[k])]

VersePrefix == NumToString(verse.verse) \o <<".">>

RECURSIVE Prefixes(_, _, _)
RECURSIVE PrefixesOfItems(_, _, _)
\* the prefixes the footnotes of c call for, in the order the renderer
\* meets them (a footnote's body before the footnote itself), c standing
\* under the prefix p; inBody tells whether the body of a footnote stands
\* under the prefix of its footnote (TRUE) or under the verse number
Prefixes(c, p, inBody) ==
  IF IsString(c) THEN <<>>
  ELSE IF IsArray(c) THEN PrefixesOfItems(c.arr, p, inBody)
  ELSE IF Has(c, "heading") THEN Prefixes(c.heading, HeadingPrefix, inBody)
  ELSE IF Has(c, "subtitle") THEN Prefixes(c.subtitle, SubtitlePrefix, inBody)
  ELSE IF isParagraphWrapper(c) THEN Prefixes(c.paragraph, p, inBody)
  ELSE IF Has(c, "foot")
       THEN Append(Prefixes(c.foot.content,
                            IF inBody THEN p ELSE VersePrefix, inBody), p)
       ELSE <<>>
PrefixesOfItems(items, p, inBody) ==
  IF items = <<>> THEN <<>>
  ELSE Prefixes(Head(items), p, inBody)
       \o PrefixesOfItems(Tail(items), p, inBody)

----------------------------------------------------------------------------
(* C9 *)

\* renderContent was last called on a Text Object with a footnote, Markdown
FootnoteRenderedByReference ==
  /\ op = "rendered"
  /\ options = MARKDOWN_OPTIONS
  /\ IsTextObject(verse.content)
  /\ Has(verse.content, "foot")

\* the marker of the footnote of the node rendered last
OwnMarker == SupOpen \o <<FromCharCode97(Len(before) % 26)>> \o SupClose

\* the entry of the footnote of the node rendered last
OwnEntry ==
  LET body == renderContent(verse.content.foot.content,
                            Context(verse, MARKDOWN_OPTIONS, before)).out
  IN <<"-", " ">> \o OwnMarker \o <<" ">> \o VersePrefix \o <<" ">> \o body

\* C9: rendering a node with a footnote under the Markdown policy appends
\* its entry "- <sup>L</sup> P B" to the accumulator exactly once, after
\* what was there, and puts only the marker in the text, right after the
\* node's text; the body is not inlined.
C9_ReferenceFootnote ==
  FootnoteRenderedByReference =>
    LET obj == verse.content
    IN /\ SubSeq(chapterFootnotes, 1, Len(before)) = before
       /\ Cardinality({k \in 1..Len(Pushed) : Pushed[k] = OwnEntry}) = 1
       /\ Pushed[Len(Pushed)] = OwnEntry
       /\ result = (IF Flag(obj, "paragraph") THEN <<"\n", "\n">> ELSE <<>>)
                   \o ShownText(obj) \o OwnMarker
                   \o (IF Flag(obj, "break") THEN <<"<", "b", "r", ">">>
                       ELSE <<>>)

\* the 26th footnote of a chapter, on a node with text, was rendered
C9_Witness ==
  /\ FootnoteRenderedByReference
  /\ Field(verse.content, "text") # <<>>
  /\ Len(before) = 25
  /\ Len(chapterFootnotes) = 26

----------------------------------------------------------------------------
(* C10 *)

Lexical == {"strong", "morph", "lemma"}

RECURSIVE Unannotated(_)
\* c with every strong, morph and lemma property taken off, at every depth
Unannotated(c) ==
  IF IsString(c) \/ IsBoolean(c) THEN c
  ELSE IF IsArray(c)
       THEN Arr([i \in 1..Len(c.arr) |-> Unannotated(c.arr[i])])
  ELSE [f \in DOMAIN c \ Lexical |->
          IF f \in {"heading", "subtitle", "paragraph", "content"}
          THEN Unannotated(c[f])
          ELSE IF f = "foot"
          THEN [g \in DOMAIN c.foot |->
                  IF g = "content" THEN Unannotated(c.foot.content)
                  ELSE c.foot[g]]
          ELSE c[f]]

CodeCharacters == {"G", "V", "W", "(", ")"}

NoCodeIn(s) == \A i \in 1..Len(s) : s[i] \notin CodeCharacters

\* C10: the Markdown line and the accumulator do not depend on the strong,
\* morph and lemma properties: the verse and the same verse without them
\* give the same line and the same accumulator, and no code stands in the
\* line or in an entry pushed.
C10_MarkdownIgnoresLexicalAnnotations ==
  op = "markdown" =>
    /\ convertVerseToMarkdown([verse EXCEPT !.content = Unannotated(@)], before)
         = [out |-> result, footnotes |-> chapterFootnotes]
    /\ NoCodeIn(result)
    /\ \A k \in 1..Len(Pushed) : NoCodeIn(Pushed[k])

\* a verse with codes on a node and in its footnote's body was converted
C10_Witness ==
  /\ op = "markdown"
  /\ IsTextObject(verse.content)
  /\ Has(verse.content, "strong")
  /\ Has(verse.content, "morph")
  /\ Has(verse.content, "foot")
  /\ verse.content.foot = FootCodes
  /\ Unannotated(verse.content) # verse.content
  /\ Len(Pushed) = 1

----------------------------------------------------------------------------
(* C11 *)

\* renderContent was last called on a Text Object, under any policy
AnyTextObjectRendered == op = "rendered" /\ IsTextObject(verse.content)

\* the length of the paragraph marker a flagged node opens with
MarkerLength(obj) ==
  IF ~Flag(obj, "paragraph") THEN 0
  ELSE IF options = MARKDOWN_OPTIONS THEN 2
  ELSE 3

\* s with the n characters after position k replaced by t
Replaced(s, k, n, t) ==
  SubSeq(s, 1, k) \o t \o SubSeq(s, k + n + 1, Len(s))

\* obj without its marks
Unmarked(obj) == [f \in DOMAIN obj \ {"marks"} |-> obj[f]]

IsSmallCaps(obj) ==
  Has(obj, "marks") /\ "sc" \in {obj.marks[i] : i \in 1..Len(obj.marks)}

\* C11: a Text Object with the sc mark renders as the same node without
\* marks does, except that its text stands in upper case: the codes, the
\* markers, the footnote body and the accumulator entries are those of the
\* unmarked node; rendering the node with its text already in upper case
\* gives the same output; the text of a node without the sc mark stands in
\* the output as it is.
C11_SmallCapsUpperCasesTextOnly ==
  AnyTextObjectRendered =>
    LET obj == verse.content
        text == Field(obj, "text")
        k == MarkerLength(obj)
        ctx == Context(verse, options, before)
        plain == renderContent(Unmarked(obj), ctx)
        upper == renderContent(
                   [f \in DOMAIN obj |->
                      IF f = "text" THEN ToUpperCase(text) ELSE obj[f]], ctx)
    IN /\ chapterFootnotes = plain.footnotes
       /\ Len(result) = Len(plain.out)
       /\ IF IsSmallCaps(obj)
          THEN /\ result = Replaced(plain.out, k, Len(text), ToUpperCase(text))
               /\ upper = [out |-> result, footnotes |-> chapterFootnotes]
          ELSE /\ result = plain.out
               /\ SubSeq(result, k + 1, k + Len(text)) = text

\* a node with lower-case text, the sc mark, a footnote with a lower-case
\* body and a Strong's code was rendered as annotated text
C11_Witness ==
  /\ AnyTextObjectRendered
  /\ options = TEXT_OPTIONS
  /\ IsSmallCaps(verse.content)
  /\ Field(verse.content, "text") = <<"a">>
  /\ Has(verse.content, "foot")
  /\ Has(verse.content, "strong")
  /\ result = <<"A", Degree, "{", "n", "}", " ", "G", "7">>

----------------------------------------------------------------------------
(* C12 *)

RECURSIVE Positions(_, _, _)
\* the positions from i on where the character c stands in s, ascending
Positions(s, c, i) ==
  IF i > Len(s) THEN <<>>
  ELSE (IF s[i] = c THEN <<i>> ELSE <<>>) \o Positions(s, c, i + 1)

RECURSIVE FlaggedTexts(_)
RECURSIVE FlaggedTextsOfItems(_)
\* the texts, as shown, of the nodes of c that carry the paragraph flag, in
\* the order the renderer meets them: a node before the body of its footnote
FlaggedTexts(c) ==
  IF IsString(c) THEN <<>>
  ELSE IF IsArray(c) THEN FlaggedTextsOfItems(c.arr)
  ELSE IF Has(c, "heading") THEN FlaggedTexts(c.heading)
  ELSE IF Has(c, "subtitle") THEN FlaggedTexts(c.subtitle)
  ELSE IF isParagraphWrapper(c) THEN FlaggedTexts(c.paragraph)
  ELSE (IF Flag(c, "paragraph") THEN <<ShownText(c)>> ELSE <<>>)
       \o (IF Has(c, "foot") THEN FlaggedTexts(c.foot.content) ELSE <<>>)
FlaggedTextsOfItems(items) ==
  IF items = <<>> THEN <<>>
  ELSE FlaggedTexts(Head(items)) \o FlaggedTextsOfItems(Tail(items))

\* the node whose output comes first in the verse: the content itself, or
\* the first item of the content array
FirstNode(content) ==
  IF IsArray(content) /\ content.arr # <<>> THEN content.arr[1] ELSE content

\* the text t as it stands in a normalized line, before what follows it
Settled(t) == CollapseSpaces(StripTrailingSpaces(StripLeadingSpaces(t)))

\* C12: in the line convertVerseToText returns, every node with the
\* paragraph flag contributes one PILCROW; the PILCROW opens the body (no
\* space before it) when the node is the first output of the verse, and
\* elsewhere is preceded by exactly one space, also after a Strong's or
\* morph code; it is followed by exactly one space and then by the node's
\* own text.
C12_ParagraphMarkerInText ==
  op = "text" =>
    LET body == TextBody
        at == Positions(body, Pilcrow, 1)
        texts == FlaggedTexts(verse.content)
        first == FirstNode(verse.content)
    IN /\ Len(at) = Len(texts)
       /\ (IsTextObject(first) /\ Flag(first, "paragraph")) =>
            (at # <<>> /\ at[1] = 1)
       /\ \A k \in 1..Len(at) :
            LET i == at[k]
                t == Settled(texts[k])
            IN /\ i > 1 => /\ body[i - 1] = " "
                           /\ i > 2 /\ body[i - 2] # " "
               /\ i < Len(body) => /\ body[i + 1] = " "
                                   /\ i + 2 <= Len(body)
                                   /\ body[i + 2] # " "
               /\ t # <<>> => SubSeq(body, i + 2, i + 1 + Len(t)) = t

\* a flagged node with text after a node that ends with a Strong's code
C12_Witness ==
  /\ op = "text"
  /\ verse.content = Arr(<<[text |-> <<"a">>, strong |-> StrongOuter],
                           [paragraph |-> Bool(TRUE), text |-> <<" ", "b">>]>>)
  /\ TextBody = <<"a", " ", "G", "7", " ", Pilcrow, " ", "b">>

----------------------------------------------------------------------------
(* C13 *)

\* the content of v once a leading heading is taken off
AfterHeading(v) ==
  IF startsWithHeading(v.content) THEN Arr(Tail(v.content.arr))
  ELSE v.content

\* is s a prefix of t
IsPrefix(s, t) == Len(s) <= Len(t) /\ SubSeq(t, 1, Len(s)) = s

\* the part of the Markdown line that follows the heading line, if any
AfterHeadingLine ==
  IF startsWithHeading(verse.content)
  THEN LET from == Positions(result, "\n", 2)[1] + 1
       IN SubSeq(result, from, Len(result))
  ELSE result

VerseMarker == SupOpen \o NumToString(verse.verse) \o SupClose \o <<" ">>

\* the body that follows the verse-number marker in the Markdown line
MarkdownBody ==
  LET line == AfterHeadingLine
      from == IF line # <<>> /\ line[1] = "\n" THEN 2 ELSE 1
  IN SubSeq(line, from + Len(VerseMarker), Len(line))

\* the paragraph flag of node c is set: a truthy paragraph property
HasParagraphSet(c) == ~IsString(c) /\ ~IsArray(c) /\ Flag(c, "paragraph")

RECURSIVE OwnFlags(_)
RECURSIVE OwnFlagsOfItems(_)
\* how many nodes of c outside the footnote bodies the renderer opens with
\* a paragraph marker
OwnFlags(c) ==
  IF IsString(c) THEN 0
  ELSE IF IsArray(c) THEN OwnFlagsOfItems(c.arr)
  ELSE IF Has(c, "heading") THEN OwnFlags(c.heading)
  ELSE IF Has(c, "subtitle") THEN OwnFlags(c.subtitle)
  ELSE IF isParagraphWrapper(c) THEN OwnFlags(c.paragraph)
  ELSE IF Flag(c, "paragraph") THEN 1 ELSE 0
OwnFlagsOfItems(items) ==
  IF items = <<>> THEN 0
  ELSE OwnFlags(Head(items)) + OwnFlagsOfItems(Tail(items))

RECURSIVE OwnHeadings(_)
RECURSIVE OwnHeadingsOfItems(_)
\* how many Heading wrappers of c outside the footnote bodies are rendered
OwnHeadings(c) ==
  IF IsString(c) THEN 0
  ELSE IF IsArray(c) THEN OwnHeadingsOfItems(c.arr)
  ELSE IF Has(c, "heading") THEN 1 + OwnHeadings(c.heading)
  ELSE IF Has(c, "subtitle") THEN OwnHeadings(c.subtitle)
  ELSE IF isParagraphWrapper(c) THEN OwnHeadings(c.paragraph)
  ELSE 0
OwnHeadingsOfItems(items) ==
  IF items = <<>> THEN 0
  ELSE OwnHeadings(Head(items)) + OwnHeadingsOfItems(Tail(items))

\* C13: the verse-number marker of the line convertVerseToMarkdown returns
\* is preceded by a single newline exactly when the first node of the
\* content (a leading heading taken off) has its paragraph flag set; the
\* body then starts directly with the text, the marker of that node not
\* repeated; a flag on a later node puts two newlines in the body.
C13_LeadingParagraphNewline ==
  op = "markdown" =>
    LET rest == AfterHeading(verse)
        first == FirstNode(rest)
        line == AfterHeadingLine
        body == MarkdownBody
        later == OwnFlags(rest) - (IF IsTextObject(first)
                                      /\ Flag(first, "paragraph")
                                   THEN 1 ELSE 0)
    IN /\ IsPrefix(<<"\n">> \o VerseMarker, line) <=> HasParagraphSet(first)
       /\ ~HasParagraphSet(first) => IsPrefix(VerseMarker, line)
       /\ (IsTextObject(first) /\ Flag(first, "paragraph") /\ body # <<>>) =>
            body[1] \notin {" ", "\n"}
       /\ ~isParagraphWrapper(first) =>
            Count(body, "\n") = 2 * later + 2 * OwnHeadings(rest)

----------------------------------------------------------------------------
(* C14 *)

\* the three digits of a number in 1..999, zero-padded
ThreeDigits(n) ==
  <<Digit(n \div 100), Digit((n \div 10) % 10), Digit(n % 10)>>

Whitespace == {" ", "\n", "\t"}

\* s without its space characters
Unspaced(s) == SelectSeq(s, LAMBDA c : c # " ")

\* no two consecutive spaces stand in s
SingleSpaced(s) == \A i \in 1..(Len(s) - 1) : ~(s[i] = " " /\ s[i + 1] = " ")

\* C14: convertVerseToText returns the chapter in three digits, ":", the
\* verse in three digits, one space and the rendered body; the line holds
\* no two consecutive spaces and neither begins nor ends with whitespace.
C14_TextLineFormat ==
  op = "text" =>
    LET rendered == renderContent(verse.content,
                                  Context(verse, TEXT_OPTIONS, <<>>)).out
    IN /\ IsPrefix(ThreeDigits(verse.chapter) \o <<":">>
                     \o ThreeDigits(verse.verse) \o <<" ">>, result)
       /\ Unspaced(TextBody) = Unspaced(rendered)
       /\ SingleSpaced(result)
       /\ result[1] \notin Whitespace
       /\ result[Len(result)] \notin Whitespace

----------------------------------------------------------------------------
(* C15 *)

\* no space stands right before a closing punctuation character in s
NoSpaceBeforePunctuation(s) ==
  \A i \in 1..(Len(s) - 1) : ~(s[i] = " " /\ s[i + 1] \in ClosingPunctuation)

\* C15: the body that follows the verse-number marker in the line
\* convertVerseToMarkdown returns holds no two consecutive spaces, no
\* leading space, no trailing space, and no space right before one of the
\* characters . , ; : ! ?
C15_MarkdownBodyNormalized ==
  op = "markdown" =>
    LET body == MarkdownBody
    IN /\ SingleSpaced(body)
       /\ body # <<>> => body[1] # " "
       /\ body # <<>> => body[Len(body)] # " "
       /\ NoSpaceBeforePunctuation(body)

----------------------------------------------------------------------------
(* C16 *)

\* the positions of s where a Heading or Subtitle wrapper closes: the
\* second bracket of "]]", or the right guillemet
ClosingPositions(s) ==
  { i \in 1..Len(s) :
      \/ s[i] = RightGuillemet
      \/ i > 1 /\ s[i] = "]" /\ s[i - 1] = "]" }

\* renderContent was last called on a wrapper of the given kind under a
\* policy of the annotated-text encoding
WrapperRendered(kind) ==
  /\ op = "rendered"
  /\ options.footnoteStyle = "inline"
  /\ ~IsString(verse.content) /\ ~IsArray(verse.content)
  /\ Has(verse.content, kind)

\* C16: in annotated text a Heading renders as "[[" + inner + "]]" and a
\* Subtitle as LEFT_GUILLEMET + inner + RIGHT_GUILLEMET, inner being the
\* wrapped Content rendered under the same policy, its Strong's and morph
\* codes kept; in the line of a verse every closing bracket either ends the
\* line or is followed by exactly one space and then by the next content.
C16_WrappersInText ==
  LET ctx == Context(verse, options, before)
  IN /\ WrapperRendered("heading") =>
          LET inner == renderContent(verse.content.heading, ctx).out
          IN /\ result = <<"[", "[">> \o inner \o <<"]", "]", " ">>
             /\ Count(inner, "G") = OwnCodes(verse.content.heading, "strong")
             /\ Count(inner, "(") = OwnCodes(verse.content.heading, "morph")
     /\ (WrapperRendered("subtitle") /\ ~Has(verse.content, "heading")) =>
          LET inner == renderContent(verse.content.subtitle, ctx).out
          IN /\ result = <<LeftGuillemet>> \o inner \o <<RightGuillemet, " ">>
             /\ Count(inner, "G") = OwnCodes(verse.content.subtitle, "strong")
             /\ Count(inner, "(") = OwnCodes(verse.content.subtitle, "morph")
     /\ op = "text" =>
          /\ \A i \in ClosingPositions(result) :
               \/ i = Len(result)
               \/ /\ result[i + 1] = " "
                  /\ i + 2 <= Len(result)
                  /\ result[i + 2] # " "
          /\ OwnHeadings(verse.content) > 0 => ClosingPositions(result) # {}

\* a verse that is a heading with a Strong's code followed by a flagged
\* node whose text begins with a space
C16_Witness ==
  /\ op = "text"
  /\ IsArray(verse.content)
  /\ Len(verse.content.arr) = 2
  /\ Has(verse.content.arr[1], "heading")
  /\ verse.content.arr[2] = [paragraph |-> Bool(TRUE), text |-> <<" ", "b">>]
  /\ SubSeq(TextBody, Len(TextBody) - 8, Len(TextBody))
       = <<" ", "G", "7", "]", "]", " ", Pilcrow, " ", "b">>

----------------------------------------------------------------------------
(* C18 *)

\* convertVerseToMarkdown was last called on a verse whose content array
\* begins with a Heading
HeadingVerseConverted == op = "markdown" /\ startsWithHeading(verse.content)

\* the render of the leading heading's content
LeadingHeading ==
  renderContent(verse.content.arr[1].heading,
                [Context(verse, MARKDOWN_OPTIONS, before)
                   EXCEPT !.footnotePrefix = HeadingPrefix])

\* how many footnotes the leading heading holds, at every depth
HeadingFootnotes ==
  Len(Prefixes(verse.content.arr[1].heading, HeadingPrefix, FALSE))

\* s without its spaces and newlines
Visible(s) == SelectSeq(s, LAMBDA c : c \notin {" ", "\n"})

\* the heading is emitted once, as a line before the verse-number marker,
\* and every footnote of the verse is registered once
HeadingEmittedOnce ==
  LET headingLine == <<"\n", "#", "#", "#", " ">> \o LeadingHeading.out
                       \o <<"\n">>
      rest == SubSeq(result, Len(headingLine) + 1, Len(result))
      tail == renderContent(Arr(Tail(verse.content.arr)),
                            Context(verse, MARKDOWN_OPTIONS,
                                    LeadingHeading.footnotes))
  IN /\ IsPrefix(headingLine, result)
     /\ \/ IsPrefix(VerseMarker, rest)
        \/ IsPrefix(<<"\n">> \o VerseMarker, rest)
     /\ Count(result, "#") = 3 * OwnHeadings(verse.content)
     /\ Visible(MarkdownBody) = Visible(tail.out)
     /\ chapterFootnotes = tail.footnotes
     /\ Len(Pushed) = Len(Prefixes(verse.content, VersePrefix, FALSE))
     /\ SubSeq(chapterFootnotes, 1, Len(before) + HeadingFootnotes)
          = LeadingHeading.footnotes

\* C18 as stated: for a verse whose content array begins with a Heading,
\* convertVerseToMarkdown emits the heading once, as a "### heading" line
\* before the verse-number marker, does not render it again in the body,
\* and registers every footnote inside the heading once, prefixed
\* "Heading.".
C18_LeadingHeadingOnce ==
  HeadingVerseConverted =>
    /\ HeadingEmittedOnce
    /\ \A k \in 1..HeadingFootnotes : PushedPrefixes[k] = HeadingPrefix

\* C18 as amended: the same, the prefix "Heading." being that of the
\* footnotes attached to the heading's own nodes; a footnote inside the
\* body of such a footnote is registered once too, with the verse number.
C18_LeadingHeadingOnceAmended ==
  HeadingVerseConverted =>
    /\ HeadingEmittedOnce
    /\ SubSeq(PushedPrefixes, 1, HeadingFootnotes)
         = Prefixes(verse.content.arr[1].heading, HeadingPrefix, FALSE)

\* a verse made of a heading with footnotes, a second heading and a node
\* with a footnote was converted
C18_Witness ==
  /\ HeadingVerseConverted
  /\ Len(verse.content.arr) = 3
  /\ Has(verse.content.arr[2], "heading")
  /\ HeadingFootnotes = 2
  /\ Len(Pushed) = 5
  /\ PushedPrefixes[2] = HeadingPrefix
  /\ PushedPrefixes[5] = VersePrefix

----------------------------------------------------------------------------
(* C19 *)

\* the properties of the ContentObject and ContentNested variants
KnownProperties ==
  {"text", "script", "marks", "foot", "strong", "lemma", "morph",
   "paragraph", "break", "content"}

RECURSIVE HasUnrecognized(_)
\* some node of c matches no variant of Content: an object that is no
\* wrapper and has no property, or a property no variant declares
HasUnrecognized(c) ==
  IF IsString(c) THEN FALSE
  ELSE IF IsArray(c)
       THEN \E i \in 1..Len(c.arr) : HasUnrecognized(c.arr[i])
  ELSE IF Has(c, "heading")
       THEN DOMAIN c # {"heading"} \/ HasUnrecognized(c.heading)
  ELSE IF Has(c, "subtitle")
       THEN DOMAIN c # {"subtitle"} \/ HasUnrecognized(c.subtitle)
  ELSE IF isParagraphWrapper(c)
       THEN DOMAIN c # {"paragraph"} \/ HasUnrecognized(c.paragraph)
  ELSE \/ DOMAIN c = {}
       \/ ~(DOMAIN c \subseteq KnownProperties)
       \/ Has(c, "content") /\ HasUnrecognized(c.content)
       \/ Has(c, "foot") /\ HasUnrecognized(c.foot.content)

\* the values of op after a call that returned a string
Returned == {"text", "markdown", "rendered"}

\* C19: the render of a verse that holds a node of no recognized shape
\* fails: no call on such a verse returns a line, whole or partial, and the
\* node is never rendered as empty text.
C19_UnrecognizedShapeFails ==
  HasUnrecognized(verse.content) => op \notin Returned

----------------------------------------------------------------------------
(* C17 *)

\* the positions of s where the subtitle block "> _" opens
SubtitleOpenings(s) ==
  { i \in 1..(Len(s) - 2) : SubSeq(s, i, i + 2) = <<">", " ", "_">> }

\* C17: in the Markdown file every rendered subtitle "> _..._" begins at
\* the start of a line, with no verse-number marker or verse text before it
\* on its line, whether the subtitle opens a chapter or stands at the start
\* of a later verse.
C17_SubtitleIsBlock ==
  pc = "written" =>
    \A i \in SubtitleOpenings(file) : i = 1 \/ file[i - 1] = "\n"

----------------------------------------------------------------------------
(* C20 *)

\* C20: rendering never changes the document: at every step of the
\* assembly of a book by convertBibleVersionToMarkdown, every verse and its
\* content are what JSON.parse returned; only the footnotes array and the
\* output lines change.
C20_DocumentNeverMutated == verses = loaded

----------------------------------------------------------------------------
(* C21 *)

\* the versions of the well-formed _version.json files, in directory order
WellFormed ==
  LET at == SelectSeq(Indices(dirItems),
                      LAMBDA i : /\ dirItems[i].directory
                                 /\ dirItems[i].versionFile # <<>>
                                 /\ dirItems[i].versionFile[1].json)
  IN [k \in 1..Len(at) |-> dirItems[at[k]].versionFile[1].value]

Occurrences(vs, v) == Cardinality({k \in 1..Len(vs) : vs[k] = v})

\* xs and ys hold the same versions, each as many times
SameVersions(xs, ys) ==
  /\ Len(xs) = Len(ys)
  /\ \A k \in 1..Len(xs) : Occurrences(xs, xs[k]) = Occurrences(ys, xs[k])

AscendingById(vs) ==
  \A i, j \in 1..Len(vs) :
    i < j => localeCompare(vs[i]._id, vs[j]._id) <= 0

----------------------------------------------------------------------------
(* C22 *)

\* the positions of the lines of markdownLines that are chapter headers
HeaderAt ==
  SelectSeq(Indices(markdownLines),
            LAMBDA i : IsPrefix(<<"#", "#", " ">>, markdownLines[i]))

ChaptersLoaded == {loaded[i].chapter : i \in 1..Len(loaded)}

\* the chapter numbers the headers name, in the order of the file; 0 for a
\* header that names no chapter of the book
HeaderNumbers ==
  [k \in 1..Len(HeaderAt) |->
     IF \E n \in ChaptersLoaded : markdownLines[HeaderAt[k]] = ChapterHeader(n)
     THEN CHOOSE n \in ChaptersLoaded :
            markdownLines[HeaderAt[k]] = ChapterHeader(n)
     ELSE 0]

\* the numbers of the verse markers <sup>number</sup> of a line, in order
VerseMarkersOf(line) ==
  LET numbers == {loaded[i].verse : i \in 1..Len(loaded)}
      MarkerAt(i, n) ==
        LET m == SupOpen \o NumToString(n) \o SupClose
        IN i + Len(m) - 1 <= Len(line) /\ SubSeq(line, i, i + Len(m) - 1) = m
      at == SelectSeq(Indices(line), LAMBDA i : \E n \in numbers : MarkerAt(i, n))
  IN [k \in 1..Len(at) |-> CHOOSE n \in numbers : MarkerAt(at[k], n)]

\* the lines after the k-th header and before the next one
SectionLines(k) ==
  LET from == HeaderAt[k] + 1
      to == IF k < Len(HeaderAt) THEN HeaderAt[k + 1] - 1
            ELSE Len(markdownLines)
  IN SubSeq(markdownLines, from, to)

\* the verse numbers marked in the section of the k-th header, in order
SectionVerses(k) ==
  LET lines == SectionLines(k)
      marked == [i \in 1..Len(lines) |-> VerseMarkersOf(lines[i])]
  IN Join(marked)

\* the verse numbers of the verses of chapter n, in the order of the book
VersesLoaded(n) ==
  LET at == SelectSeq(Indices(loaded), LAMBDA i : loaded[i].chapter = n)
  IN [k \in 1..Len(at) |-> loaded[at[k]].verse]

SameNumbers(xs, ys) ==
  /\ Len(xs) = Len(ys)
  /\ \A v \in {xs[k] : k \in 1..Len(xs)} \cup {ys[k] : k \in 1..Len(ys)} :
       Cardinality({k \in 1..Len(xs) : xs[k] = v})
       = Cardinality({k \in 1..Len(ys) : ys[k] = v})

\* C22: the file has one "## Chapter n" header per chapter number of the
\* book, in strictly ascending numeric order whatever the order of the
\* verses, and the verse lines of a chapter stand after its header and
\* before the next header.
C22_ChapterHeaders ==
  pc = "written" =>
    /\ {HeaderNumbers[k] : k \in 1..Len(HeaderAt)} = ChaptersLoaded
    /\ \A k \in 1..(Len(HeaderAt) - 1) : HeaderNumbers[k] < HeaderNumbers[k + 1]
    /\ \A k \in 1..Len(HeaderAt) :
         SameNumbers(SectionVerses(k), VersesLoaded(HeaderNumbers[k]))
    /\ VerseMarkersOf(Join(SubSeq(markdownLines, 1, HeaderAt[1] - 1))) = <<>>

\* a book whose verses come in the order chapter 10, chapter 2, chapter 1
\* has been written
C22_Witness ==
  /\ pc = "written"
  /\ Len(loaded) = 3
  /\ loaded[1].chapter = 10
  /\ loaded[2].chapter = 2
  /\ loaded[3].chapter = 1

----------------------------------------------------------------------------
(* C23 *)

\* the lines of the footnote block in the section of the k-th header
BlockLines(k) ==
  SelectSeq(SectionLines(k), LAMBDA line : IsPrefix(<<">", " ", "-", " ">>, line))

\* the prefix of a block line "> - <sup>L</sup> P B": P, up to its dot
BlockPrefix(line) ==
  LET from == Len(<<">", " ", "-", " ">> \o SupOpen \o <<"a">> \o SupClose
                  \o <<" ">>) + 1
      dots == {i \in from..Len(line) : line[i] = "."}
  IN IF dots = {} THEN SubSeq(line, from, Len(line))
     ELSE SubSeq(line, from, CHOOSE i \in dots : \A j \in dots : i <= j)

\* the verse numbers the entries of the k-th section are prefixed with, in
\* the order of the block
EntryVerses(k) ==
  LET numbers == {loaded[i].verse : i \in 1..Len(loaded)}
      Numbered(line) ==
        \E n \in numbers : BlockPrefix(line) = NumToString(n) \o <<".">>
      lines == SelectSeq(BlockLines(k), Numbered)
  IN [i \in 1..Len(lines) |->
        CHOOSE n \in numbers : BlockPrefix(lines[i]) = NumToString(n) \o <<".">>]

NonDecreasing(xs) == \A i, j \in 1..Len(xs) : i < j => xs[i] <= xs[j]

\* C23: within a chapter the verses are rendered in ascending verse-number
\* order, and so are the footnote entries of the chapter, whatever the order
\* of the verses in the book file.
C23_VersesInNumberOrder ==
  pc = "written" =>
    \A k \in 1..Len(HeaderAt) :
      /\ NonDecreasing(SectionVerses(k))
      /\ NonDecreasing(EntryVerses(k))

----------------------------------------------------------------------------
(* C24 *)

\* the first entry of an accumulator, if any, carries the letter 'a'
FirstLetteredA(entries) ==
  entries # <<>> =>
    IsPrefix(<<"-", " ">> \o SupOpen \o <<"a">> \o SupClose \o <<" ">>,
             entries[1])

\* the chapter loop has just pushed what follows the verses of a chapter
ChapterEnded == pc = "chapter" /\ chapter > 1

\* the lines of section k without the "> " that opens a block line
BlockEntries(k) ==
  [i \in 1..Len(BlockLines(k)) |->
     SubSeq(BlockLines(k)[i], 3, Len(BlockLines(k)[i]))]

\* C24: a chapter starts with an empty accumulator, so its footnotes are
\* lettered from 'a' whatever the chapters before it hold; after its verses
\* come one blank line and the entries of the accumulator, one "> " line
\* each in index order, and nothing when the accumulator is empty.
C24_AccumulatorPerChapter ==
  /\ pc = "subtitle" => chapterFootnotes = <<>>
  /\ ChapterEnded =>
       LET n == Len(chapterFootnotes)
           last == Len(markdownLines)
       IN /\ FirstLetteredA(chapterFootnotes)
          /\ IF n > 0
             THEN /\ SubSeq(markdownLines, last - n + 1, last)
                     = [i \in 1..n |-> <<">", " ">> \o chapterFootnotes[i]]
                  /\ markdownLines[last - n] = <<>>
                  /\ markdownLines[last - n - 1] # <<>>
                  /\ VerseMarkersOf(markdownLines[last - n - 1]) # <<>>
             ELSE VerseMarkersOf(markdownLines[last]) # <<>>
  /\ pc = "written" =>
       \A k \in 1..Len(HeaderAt) : FirstLetteredA(BlockEntries(k))

\* a second chapter with a footnote has ended after a first chapter with
\* footnotes
C24_Witness ==
  /\ pc = "chapter"
  /\ chapter = 3
  /\ Len(chapterFootnotes) > 0
  /\ BlockLines(1) # <<>>
  /\ Len(markdownLines[Len(markdownLines)]) > 0

----------------------------------------------------------------------------
(* C25 *)

\* how many footnotes c holds, at every depth
FootnotesIn(c) == Len(Prefixes(c, <<>>, TRUE))

\* the first verse of the chapter the loop is at, as it was loaded
FirstLoaded == loaded[chapterVerses[1]]

\* a policy context for the expected render of an extracted node; of its
\* footnotes array only the length bears on the text rendered
OpeningContext(footnotes) ==
  [ options        |-> MARKDOWN_OPTIONS,
    footnotes      |-> footnotes,
    verseNum       |-> <<FirstLoaded.verse>>,
    footnotePrefix |-> <<>> ]

LeadingSubtitle == firstItemIs(FirstLoaded.content, "subtitle")

SubtitleRendered ==
  renderContent(FirstLoaded.content.arr[1].subtitle, OpeningContext(<<>>))

AfterSubtitle ==
  IF LeadingSubtitle THEN Arr(Tail(FirstLoaded.content.arr))
  ELSE FirstLoaded.content

ExtractedHeading == firstItemIs(AfterSubtitle, "heading")

HeadingRendered ==
  renderContent(AfterSubtitle.arr[1].heading,
                OpeningContext(IF LeadingSubtitle
                               THEN SubtitleRendered.footnotes ELSE <<>>))

AfterExtraction ==
  IF ExtractedHeading THEN Arr(Tail(AfterSubtitle.arr)) ELSE AfterSubtitle

\* the lines a chapter opens with after its header
OpeningBlocks ==
  (IF LeadingSubtitle
   THEN << <<>>, <<">", " ", "_">> \o SubtitleRendered.out \o <<"_">> >>
   ELSE <<>>)
  \o (IF ExtractedHeading
      THEN << <<>>, <<"#", "#", "#", " ">> \o HeadingRendered.out >>
      ELSE <<>>)

\* how many footnotes the extracted nodes hold
ExtractedFootnotes ==
  (IF LeadingSubtitle
   THEN FootnotesIn(FirstLoaded.content.arr[1].subtitle) ELSE 0)
  + (IF ExtractedHeading
     THEN FootnotesIn(AfterSubtitle.arr[1].heading) ELSE 0)

\* the lines pushed since the header of the chapter the loop is at
SinceHeader ==
  SubSeq(markdownLines, HeaderAt[Len(HeaderAt)] + 1, Len(markdownLines))

\* C25: a Subtitle and then a Heading that open the content of a chapter's
\* first verse are emitted as a "> _..._" block and a "### ..." block, once
\* each and before any verse line; the first verse's line is that of the
\* verse without the extracted nodes, and each footnote inside them is in
\* the accumulator once.
C25_OpeningExtracted ==
  /\ pc = "paragraph" =>
       /\ SinceHeader = OpeningBlocks
       /\ Len(chapterFootnotes) = ExtractedFootnotes
  /\ pc = "verses" /\ next = 2 =>
       LET reduced == [FirstLoaded EXCEPT !.content = AfterExtraction]
           line == convertVerseToMarkdown(
                     reduced, [i \in 1..ExtractedFootnotes |-> <<>>])
       IN /\ SinceHeader = OpeningBlocks
                           \o (IF firstVerseHasLeadingParagraph(AfterExtraction)
                               THEN <<>> ELSE << <<>> >>)
                           \o <<line.out>>
          /\ Len(chapterFootnotes) = Len(line.footnotes)
          /\ Len(chapterFootnotes)
               = ExtractedFootnotes + FootnotesIn(AfterExtraction)

\* the first verse of a chapter opened with a subtitle and a heading, and
\* another with a heading whose footnote holds a footnote, and its line has
\* been pushed
C25_Witness ==
  /\ pc = "verses"
  /\ next = 2
  /\ chapter = 2
  /\ ExtractedHeading
  /\ ExtractedFootnotes = 2
  /\ \E i \in 1..Len(loaded) :
       /\ firstItemIs(loaded[i].content, "subtitle")
       /\ firstItemIs(Arr(Tail(loaded[i].content.arr)), "heading")
       /\ loaded[i].chapter < FirstLoaded.chapter
       /\ \A j \in 1..(i - 1) : loaded[j].chapter # loaded[i].chapter

----------------------------------------------------------------------------
(* C26 *)

\* the first verse line of the chapter the loop is at has just been pushed
FirstVersePushed == pc = "verses" /\ next = 2

\* C26: between the opening block of a chapter (header, subtitle block,
\* heading block) and its first verse line stands exactly one empty line:
\* either the separator the assembler pushes, the verse line then starting
\* with its text, or the newline a verse that opens a paragraph starts
\* with, the separator then left out.
C26_OneBlankBeforeFirstVerse ==
  FirstVersePushed =>
    LET last == Len(markdownLines)
        line == markdownLines[last]
    IN \/ /\ markdownLines[last - 1] = <<>>
          /\ markdownLines[last - 2] # <<>>
          /\ line # <<>>
          /\ line[1] # "\n"
       \/ /\ markdownLines[last - 1] # <<>>
          /\ Len(line) >= 2
          /\ line[1] = "\n"
          /\ line[2] # "\n"

----------------------------------------------------------------------------
(* C27 *)

\* C27: the file begins with the header of the first chapter emitted, with
\* no blank line before it, and every later chapter header has exactly one
\* empty line before it, whatever the number of the first chapter.
C27_HeaderSpacing ==
  pc = "written" =>
    /\ HeaderAt[1] = 1
    /\ \A k \in 2..Len(HeaderAt) :
         /\ markdownLines[HeaderAt[k] - 1] = <<>>
         /\ markdownLines[HeaderAt[k] - 2] # <<>>

----------------------------------------------------------------------------
(* C28 *)

\* the prefixes an entry of the chapter at hand may carry
ChapterPrefixes ==
  {HeadingPrefix, SubtitlePrefix}
  \cup {NumToString(verses[chapterVerses[i]].verse) \o <<".">> :
          i \in 1..Len(chapterVerses)}

\* C28: every entry of a chapter accumulator, pushed by
\* convertVerseToMarkdown or by the extraction of a leading subtitle or
\* heading, is prefixed "Heading.", "Subtitle." or with the number of a
\* verse of the chapter and a dot; none is prefixed "undefined.".
C28_EntryPrefixes ==
  pc \in {"heading", "paragraph", "verses"} =>
    \A k \in 1..Len(chapterFootnotes) :
      EntryPrefix(chapterFootnotes[k]) \in ChapterPrefixes

----------------------------------------------------------------------------
(* C29 *)

\* C29: a render call only appends to the accumulator: the array as it was
\* when the call started is a prefix of the array during and after the
\* call; under the annotated-text policy (inline footnotes) the array is
\* left as it was.
C29_AccumulatorAppendOnly ==
  /\ IsPrefix(before, chapterFootnotes)
  /\ op # "none" /\ options.footnoteStyle = "inline" =>
       chapterFootnotes = before

\* a second Markdown call has added entries to an accumulator that held
\* the entries of earlier verses and of the first call
C29_Witness ==
  /\ op = "markdown"
  /\ calls = 2
  /\ Len(before) > EarlierFootnotes
  /\ Len(chapterFootnotes) >= Len(before) + 2

----------------------------------------------------------------------------
(* C30 *)

RECURSIVE EveryFootnote(_)
RECURSIVE EveryFootnoteOfItems(_)
\* how many footnotes the tree c holds: on a text node, inside a heading, a
\* subtitle, a paragraph wrapper or a nested group, inside a footnote's body
EveryFootnote(c) ==
  IF IsString(c) \/ IsBoolean(c) THEN 0
  ELSE IF IsArray(c) THEN EveryFootnoteOfItems(c.arr)
  ELSE (IF Has(c, "foot") THEN 1 + EveryFootnote(c.foot.content) ELSE 0)
       + (IF Has(c, "heading") THEN EveryFootnote(c.heading) ELSE 0)
       + (IF Has(c, "subtitle") THEN EveryFootnote(c.subtitle) ELSE 0)
       + (IF Has(c, "paragraph") THEN EveryFootnote(c.paragraph) ELSE 0)
       + (IF Has(c, "content") THEN EveryFootnote(c.content) ELSE 0)
EveryFootnoteOfItems(items) ==
  IF items = <<>> THEN 0
  ELSE EveryFootnote(Head(items)) + EveryFootnoteOfItems(Tail(items))

\* the footnotes of the verses of chapter n of the book
FootnotesOfChapter(n) ==
  EveryFootnoteOfItems(
    [k \in 1..Len(SelectSeq(loaded, LAMBDA v : v.chapter = n)) |->
       SelectSeq(loaded, LAMBDA v : v.chapter = n)[k].content])

\* how many footnote markers <sup>letter</sup> the line holds
LetterMarkers(line) ==
  Cardinality({i \in 1..(Len(line) - Len(SupOpen) - Len(SupClose)) :
                 /\ SubSeq(line, i, i + Len(SupOpen) - 1) = SupOpen
                 /\ \E k \in 0..25 : line[i + Len(SupOpen)] = FromCharCode97(k)
                 /\ SubSeq(line, i + Len(SupOpen) + 1,
                           i + Len(SupOpen) + Len(SupClose)) = SupClose})

\* the markers of section k outside the labels of its block lines
MarkersOfSection(k) ==
  LetterMarkers(Join(SectionLines(k))) - Len(BlockLines(k))

\* C30: every footnote of a chapter's content trees, wherever it stands,
\* has exactly one entry in the footnote block of the chapter and exactly
\* one marker in the chapter's output.
C30_FootnotesConserved ==
  pc = "written" =>
    \A k \in 1..Len(HeaderAt) :
      /\ Len(BlockLines(k)) = FootnotesOfChapter(HeaderNumbers[k])
      /\ MarkersOfSection(k) = FootnotesOfChapter(HeaderNumbers[k])

====
